---- MODULE Spec2Model ----
(***************************************************************************)
(* Agent orchestration core of the visual-analysis system: the tool        *)
(* dispatcher (tools/tool_executor.py) over the static tool catalog        *)
(* (tools/tool_registry.py) and the goal-oriented mode engine              *)
(* (core/modes/goal_oriented_mode.py).                                     *)
(*                                                                         *)
(* Python values are encoded as follows.  A dict is a function whose       *)
(* domain is its key set; a missing key is a missing domain element.       *)
(* Records that stand for dicts of a fixed shape use the token Absent for  *)
(* a key the dict does not hold.  A raised exception is the flag           *)
(* raised = TRUE of the value a call yields.  All scalar values (defaults, *)
(* argument values, chart specifications, images) are strings.             *)
(***************************************************************************)
EXTENDS Naturals, Sequences, FiniteSets, TLC

VARIABLES
    \* ToolExecutor (process-wide singleton)
    execution_history,  \* ToolExecutor.execution_history
    clock,              \* datetime.now() as the number of records appended so far
    calls,              \* number of direct execute calls made so far
    exec_call,          \* arguments of the latest execute call
    exec_ret,           \* what the latest execute call yielded
    \* the session dict that SessionManager hands to the engine as 'context'
    session,
    next_query,         \* index of the next user query
    \* the frame of the running GoalOrientedMode.execute call
    pc,                 \* "idle" | "loop" | "exit"
    frame,              \* its arguments and bookkeeping
    messages,           \* local 'messages'
    iterations,         \* local 'iterations'
    current_spec,
    current_image,
    round_log,          \* what the latest loop round did
    go_ret,             \* what the latest GoalOrientedMode.execute call yielded
    \* callers running on several threads
    sessions,           \* SessionManager.sessions[session_id], the shared session dict
    session0,           \* that session as the concurrent calls found it
    heap,               \* the list objects a session dict or a thread's locals refer to
    threads,            \* per thread: the call it runs, its position and its locals
    recorders,          \* per thread: its position in ToolExecutor._record_execution
    \* latest calls of the schema adapter and of intent recognition
    openai_tools,       \* VLMToolAdapter.to_openai_format: filter and output
    anthropic_tools,    \* VLMToolAdapter.to_anthropic_format: filter and output
    prompt_string,      \* VLMToolAdapter.to_prompt_string: filter and output
    intent_call,        \* SessionManager._recognize_intent: query and outcome
    \* latest calls of the other entry points
    batch,              \* ToolExecutor.execute_batch: entries and outcome
    extraction,         \* extract_json_from_text: text and value
    store,              \* SessionManager.sessions, called one call after the other
    store_call          \* the latest call of the SessionManager and its outcome

execVars == <<execution_history, clock, calls, exec_call, exec_ret>>

goalVars == <<session, next_query, pc, frame, messages, iterations,
              current_spec, current_image, round_log, go_ret>>

threadVars == <<sessions, session0, heap, threads, recorders>>

entryVars == <<batch, extraction, store, store_call>>

callVars == <<openai_tools, anthropic_tools, prompt_string, intent_call, entryVars>>

vars == <<execution_history, clock, calls, exec_call, exec_ret,
          session, next_query, pc, frame, messages, iterations,
          current_spec, current_image, round_log, go_ret,
          sessions, session0, heap, threads, recorders,
          openai_tools, anthropic_tools, prompt_string, intent_call, entryVars>>

Absent == "<absent>"

EmptyDict == [k \in {} |-> Absent]

\* dict without one key: {k: v for k, v in d.items() if k != key}
Without(d, key) == [k \in (DOMAIN d) \ {key} |-> d[k]]

Range(s) == {s[i] : i \in DOMAIN s}

(***************************************************************************)
(* Tool catalog                                                            *)
(***************************************************************************)
Req(n, t) ==
    [name |-> n, type |-> t, required |-> TRUE, has_default |-> FALSE, default |-> Absent]

Opt(n, t, d) ==
    [name |-> n, type |-> t, required |-> FALSE, has_default |-> TRUE, default |-> d]

OptNoDefault(n, t) ==
    [name |-> n, type |-> t, required |-> FALSE, has_default |-> FALSE, default |-> Absent]

Tool(n, c, ps) == [name |-> n, category |-> c, params |-> ps]

\* The descriptors in registration order (a dict keeps insertion order).
\* 'params' lists the parameter specs in the order the descriptor declares them.
register_all_tools ==
   <<
      Tool("get_data_summary", "perception",
         << Req("vega_spec", "dict"),
            Opt("scope", "str", "all") >>),
      Tool("get_tooltip_data", "perception",
         << Req("vega_spec", "dict"),
            Req("position", "list") >>),
      Tool("zoom", "action",
         << Req("vega_spec", "dict"),
            Req("area", "list") >>),
      Tool("filter", "action",
         << Req("vega_spec", "dict"),
            Req("dimension", "str"),
            Req("range", "list") >>),
      Tool("brush", "action",
         << Req("vega_spec", "dict"),
            Req("area", "list") >>),
      Tool("change_encoding", "action",
         << Req("vega_spec", "dict"),
            Req("channel", "str"),
            Req("field_name", "str") >>),
      Tool("highlight", "action",
         << Req("vega_spec", "dict"),
            Req("category", "any") >>),
      Tool("render_chart", "action",
         << Req("vega_spec", "dict") >>),
      Tool("sort_bars", "action",
         << Req("vega_spec", "dict"),
            Opt("order", "str", "descending") >>),
      Tool("filter_categories", "action",
         << Req("vega_spec", "dict"),
            Req("categories", "list") >>),
      Tool("highlight_top_n", "action",
         << Req("vega_spec", "dict"),
            Opt("n", "int", "2"),
            Opt("order", "str", "descending") >>),
      Tool("compare_groups", "analysis",
         << Req("vega_spec", "dict"),
            Req("group_field", "str") >>),
      Tool("zoom_time_range", "action",
         << Req("vega_spec", "dict"),
            Req("start", "str"),
            Req("end", "str") >>),
      Tool("highlight_trend", "action",
         << Req("vega_spec", "dict"),
            Opt("trend_type", "str", "increasing") >>),
      Tool("compare_series", "analysis",
         << Req("vega_spec", "dict"),
            Req("series_field", "str") >>),
      Tool("detect_anomalies", "analysis",
         << Req("vega_spec", "dict"),
            Opt("threshold", "float", "2.0") >>),
      Tool("select_region", "action",
         << Req("vega_spec", "dict"),
            Req("x_range", "tuple"),
            Req("y_range", "tuple") >>),
      Tool("identify_clusters", "analysis",
         << Req("vega_spec", "dict"),
            Opt("n_clusters", "int", "3"),
            Opt("method", "str", "kmeans") >>),
      Tool("calculate_correlation", "analysis",
         << Req("vega_spec", "dict"),
            Opt("method", "str", "pearson") >>),
      Tool("zoom_dense_area", "action",
         << Req("vega_spec", "dict"),
            Req("x_range", "tuple"),
            Req("y_range", "tuple") >>),
      Tool("adjust_color_scale", "action",
         << Req("vega_spec", "dict"),
            Opt("scheme", "str", "viridis") >>),
      Tool("filter_cells", "action",
         << Req("vega_spec", "dict"),
            Req("min_value", "float"),
            Req("max_value", "float") >>),
      Tool("highlight_region", "action",
         << Req("vega_spec", "dict"),
            Req("x_values", "list"),
            Req("y_values", "list") >>),
      Tool("cluster_rows_cols", "action",
         << Req("vega_spec", "dict"),
            Opt("cluster_rows", "bool", "True"),
            Opt("cluster_cols", "bool", "True"),
            Opt("method", "str", "sum") >>),
      Tool("select_submatrix", "action",
         << Req("vega_spec", "dict"),
            OptNoDefault("x_values", "list"),
            OptNoDefault("y_values", "list") >>),
      Tool("filter_dimension", "action",
         << Req("vega_spec", "dict"),
            Req("dimension", "str"),
            Req("range", "list") >>),
      Tool("highlight_cluster", "action",
         << Req("vega_spec", "dict"),
            Req("cluster_id", "int") >>),
      Tool("reorder_dimensions", "action",
         << Req("vega_spec", "dict"),
            Req("dimension_order", "list") >>),
      Tool("filter_flow", "action",
         << Req("vega_spec", "dict"),
            Req("min_value", "float") >>),
      Tool("highlight_path", "action",
         << Req("vega_spec", "dict"),
            Req("source", "str"),
            Req("target", "str") >>),
      Tool("trace_node", "action",
         << Req("vega_spec", "dict"),
            Req("node_name", "str") >>)

   >>

\* ToolRegistry.list_all_tools: list(self._tools.keys())
list_all_tools == [i \in 1..Len(register_all_tools) |-> register_all_tools[i].name]

ToolNames == Range(list_all_tools)

\* Faulty variant of get_tool: a lookup that falls back to the first
\* descriptor instead of None.
get_tool_with_fallback(tool_name) ==
    IF \E i \in 1..Len(register_all_tools) : register_all_tools[i].name = tool_name
    THEN SelectSeq(register_all_tools, LAMBDA d : d.name = tool_name)
    ELSE <<register_all_tools[1]>>

\* ToolRegistry.get_tool: self._tools.get(tool_name); None is the empty
\* sequence, a descriptor d is <<d>>.
get_tool(tool_name) ==
    SelectSeq(register_all_tools, LAMBDA d : d.name = tool_name)

ParamNames(tool_info) == {tool_info.params[i].name : i \in 1..Len(tool_info.params)}

RequiredNames(tool_info) ==
    {tool_info.params[i].name : i \in {j \in 1..Len(tool_info.params) : tool_info.params[j].required}}

ParamSpec(tool_info, n) ==
    tool_info.params[CHOOSE i \in 1..Len(tool_info.params) : tool_info.params[i].name = n]

(***************************************************************************)
(* Tool dispatcher                                                         *)
(***************************************************************************)
\* len(self.execution_history) > 100 / self.execution_history[-100:]
HistoryCap == 100

\* A result dict.  'available_tools' and 'details' are <<>> when not held.
Result(success, error, available_tools, details, vega_spec, message) ==
    [success |-> success, error |-> error, available_tools |-> available_tools,
     details |-> details, vega_spec |-> vega_spec, message |-> message]

NoResult == Result(FALSE, Absent, <<>>, <<>>, Absent, Absent)

\* params as a caller can pass them: a dict, or None (JSON null)
DictParams(d) == [kind |-> "dict", items |-> d]

NoneParams == [kind |-> "none", items |-> EmptyDict]

\* the key 'params' of a tool call is missing
AbsentParams == [kind |-> "absent", items |-> EmptyDict]

\* Faulty variant of _validate_params: stops at the first missing parameter.
_validate_params_first_only(tool_name, params) ==
    LET tool_info == get_tool(tool_name)[1]
        param_specs == tool_info.params
        missing == SelectSeq(param_specs,
                             LAMBDA ps : ps.required /\ ps.name \notin DOMAIN params)
        errors == IF Len(missing) = 0 THEN <<>> ELSE <<missing[1].name>>
    IN  [valid |-> Len(errors) = 0, errors |-> errors]

\* ToolExecutor._validate_params.  An entry of 'errors' is the text
\* 'Missing required parameter: <name>'; the name stands for it.
_validate_params(tool_name, params) ==
    LET tool_info == get_tool(tool_name)[1]
        param_specs == tool_info.params
        missing == SelectSeq(param_specs,
                             LAMBDA ps : ps.required /\ ps.name \notin DOMAIN params)
        errors == [i \in 1..Len(missing) |-> missing[i].name]
    IN  [valid |-> Len(errors) = 0, errors |-> errors]

\* Faulty variant of _fill_default_params: a declared default replaces the
\* value the caller supplied.
_fill_default_params_overwriting(tool_info, params) ==
    LET defaulted == {n \in ParamNames(tool_info) : ParamSpec(tool_info, n).has_default}
    IN  [k \in (DOMAIN params) \cup defaulted |->
            IF k \in defaulted THEN ParamSpec(tool_info, k).default ELSE params[k]]

\* ToolExecutor._fill_default_params
_fill_default_params(tool_info, params) ==
    LET defaulted == {n \in ParamNames(tool_info) :
                         n \notin DOMAIN params /\ ParamSpec(tool_info, n).has_default}
    IN  [k \in (DOMAIN params) \cup defaulted |->
            IF k \in DOMAIN params THEN params[k] ELSE ParamSpec(tool_info, k).default]

\* tool_function(**params): Python binds the keywords to the function's
\* parameters before the body runs and raises TypeError for an unknown
\* keyword or an unbound parameter without a default.  Every registered
\* function declares exactly the descriptor's names, with a Python default
\* exactly for the parameters the descriptor does not mark required.
BindsArguments(tool_info, params) ==
    /\ DOMAIN params \subseteq ParamNames(tool_info)
    /\ RequiredNames(tool_info) \subseteq DOMAIN params

\* What a tool body can do once it runs (its contract, not its internals):
\* return an updated spec, return an analysis without a spec, report a
\* failure, or raise.
BodySpec(s) == [kind |-> "spec", vega_spec |-> s]

BodyAnalysis == [kind |-> "analysis", vega_spec |-> Absent]

BodyFail == [kind |-> "fail", vega_spec |-> Absent]

BodyRaise == [kind |-> "raise", vega_spec |-> Absent]

ToolBodyResult(body) ==
    CASE body.kind = "spec" ->
            Result(TRUE, Absent, <<>>, <<>>, body.vega_spec, "tool message")
      [] body.kind = "analysis" ->
            Result(TRUE, Absent, <<>>, <<>>, Absent, "tool message")
      [] OTHER ->
            Result(FALSE, "tool error", <<>>, <<>>, Absent, Absent)

\* The record _record_execution builds.
ExecutionRecord(now, tool_name, params, result, success) ==
    [timestamp |-> now,
     tool_name |-> tool_name,
     params    |-> Without(params, "vega_spec"),
     result    |-> [result EXCEPT !.vega_spec = Absent],
     success   |-> success]

\* Faulty variant of the trim: keeps the oldest records, [:100].
TrimHistory_keep_oldest(history) ==
    IF Len(history) > HistoryCap
    THEN SubSeq(history, 1, HistoryCap)
    ELSE history

\* self.execution_history[-100:]
TrimHistory(history) ==
    IF Len(history) > HistoryCap
    THEN SubSeq(history, Len(history) - HistoryCap + 1, Len(history))
    ELSE history

\* ToolExecutor._record_execution: the history after the call
_record_execution(history, now, tool_name, params, result, success) ==
    TrimHistory(Append(history, ExecutionRecord(now, tool_name, params, result, success)))

\* The value of one execute call: whether it raised, the result returned,
\* whether the tool body ran and with which arguments, the history after
\* the call and the records the call handed to _record_execution.
Outcome(raised, result, invoked, args, history, logged) ==
    [raised |-> raised, result |-> result, invoked |-> invoked, args |-> args,
     history |-> history, logged |-> logged]

\* Faulty variant of the try block: the except branch does not record.
InvokeTool_failure_unrecorded(tool_name, tool_info, params, body, history, now) ==
    IF BindsArguments(tool_info, params) /\ body.kind # "raise"
    THEN LET result == ToolBodyResult(body)
         IN  Outcome(FALSE, result, TRUE, params,
                     _record_execution(history, now, tool_name, params, result, TRUE),
                     <<ExecutionRecord(now, tool_name, params, result, TRUE)>>)
    ELSE Outcome(FALSE,
                 Result(FALSE,
                        IF BindsArguments(tool_info, params) THEN "exception" ELSE "TypeError",
                        <<>>, <<>>, Absent, Absent),
                 BindsArguments(tool_info, params), params, history, <<>>)

\* ToolExecutor.execute, lines 51-70: the try block.
InvokeTool(tool_name, tool_info, params, body, history, now) ==
    IF BindsArguments(tool_info, params) /\ body.kind # "raise"
    THEN LET result == ToolBodyResult(body)
         IN  Outcome(FALSE, result, TRUE, params,
                     _record_execution(history, now, tool_name, params, result, TRUE),
                     <<ExecutionRecord(now, tool_name, params, result, TRUE)>>)
    ELSE LET error_result ==
                 Result(FALSE,
                        IF BindsArguments(tool_info, params) THEN "exception" ELSE "TypeError",
                        <<>>, <<>>, Absent, Absent)
         IN  Outcome(FALSE, error_result, BindsArguments(tool_info, params), params,
                     _record_execution(history, now, tool_name, params, error_result, FALSE),
                     <<ExecutionRecord(now, tool_name, params, error_result, FALSE)>>)

\* ToolExecutor.execute
execute(tool_name, params, validate, body, history, now) ==
    LET tool_info == get_tool(tool_name)
    IN  IF tool_info = <<>>
        THEN Outcome(FALSE,
                     Result(FALSE, "not found", list_all_tools, <<>>, Absent, Absent),
                     FALSE, EmptyDict, history, <<>>)
        ELSE IF params.kind # "dict"
        THEN \* 'name not in None' (validate) or None.copy() (fill) raises
             \* outside the try block
             Outcome(TRUE, NoResult, FALSE, EmptyDict, history, <<>>)
        ELSE IF validate /\ ~_validate_params(tool_name, params.items).valid
        THEN Outcome(FALSE,
                     Result(FALSE, "Parameter validation failed", <<>>,
                            _validate_params(tool_name, params.items).errors,
                            Absent, Absent),
                     FALSE, EmptyDict, history, <<>>)
        ELSE InvokeTool(tool_name, tool_info[1],
                        _fill_default_params(tool_info[1], params.items),
                        body, history, now)

(***************************************************************************)
(* Direct use of the dispatcher: a caller of get_tool_executor().execute   *)
(***************************************************************************)
MaxCalls == 1

Specs == {"S0", "S1"}

BodyOutcomes == {BodySpec(s) : s \in Specs} \cup {BodyAnalysis, BodyFail, BodyRaise}

\* Tool names a caller passes: every registered name and one that is not.
DispatchNames == ToolNames \cup {"no_such_tool"}

\* Tools for which the caller's params may also hold a keyword the function
\* does not declare.
UnexpectedKeyTools == {"sort_bars", "zoom"}

\* Keys a caller's params may hold for a tool: any of the descriptor's names.
CandidateKeys(tool_name) ==
    IF tool_name \in ToolNames
    THEN ParamNames(get_tool(tool_name)[1]) \cup
         (IF tool_name \in UnexpectedKeyTools THEN {"unexpected"} ELSE {})
    ELSE {"vega_spec"}

\* The params a caller passes: None, or a dict over any subset of the keys.
\* A caller's value is "user" (no default has that value); the spec is S0.
ParamsFor(tool_name) ==
    {NoneParams} \cup
    {DictParams([k \in S |-> IF k = "vega_spec" THEN "S0" ELSE "user"]) :
        S \in SUBSET CandidateKeys(tool_name)}

\* The executor is a process-wide singleton (get_tool_executor): a caller
\* finds the log as earlier dispatches left it.  A log of n records left by
\* n successful render_chart dispatches:
EarlierRecord(i) ==
    ExecutionRecord(i, "render_chart", [k \in {"vega_spec"} |-> "S0"],
                    ToolBodyResult(BodyAnalysis), TRUE)

EarlierHistory(n) == [i \in 1..n |-> EarlierRecord(i)]

EarlierLengths == {0, HistoryCap}

NoCall == [tool_name |-> Absent, params |-> NoneParams, validate |-> TRUE]

NoReturn == [returned |-> FALSE, raised |-> FALSE, result |-> NoResult,
             invoked |-> FALSE, args |-> EmptyDict, logged |-> <<>>]

InitExecutor(lengths) ==
    /\ \E n \in lengths :
          /\ execution_history = EarlierHistory(n)
          /\ clock = n
    /\ calls = 0
    /\ exec_call = NoCall
    /\ exec_ret = NoReturn

\* One call of ToolExecutor.execute by a direct caller.
Dispatch(tool_name, params, validate, body) ==
    /\ calls < MaxCalls
    /\ \E out \in {execute(tool_name, params, validate, body, execution_history, clock + 1)} :
        /\ calls' = calls + 1
        /\ exec_call' = [tool_name |-> tool_name, params |-> params, validate |-> validate]
        /\ exec_ret' = [returned |-> ~out.raised, raised |-> out.raised,
                        result |-> out.result, invoked |-> out.invoked,
                        args |-> out.args, logged |-> out.logged]
        /\ execution_history' = out.history
        /\ clock' = clock + Len(out.logged)
        /\ UNCHANGED <<goalVars, threadVars, callVars>>

\* The body's behaviour is drawn only for a call that runs the body.
BodiesFor(tool_name, params, validate) ==
    IF execute(tool_name, params, validate, BodyAnalysis, <<>>, 0).invoked
    THEN BodyOutcomes
    ELSE {BodyAnalysis}

DispatchAny ==
    \E tool_name \in DispatchNames, validate \in BOOLEAN :
        \E params \in ParamsFor(tool_name) :
            \E body \in BodiesFor(tool_name, params, validate) :
                Dispatch(tool_name, params, validate, body)

(***************************************************************************)
(* Batches: ToolExecutor.execute_batch                                     *)
(***************************************************************************)
MaxBatch == 3

\* An entry of tool_calls: a dict that holds or lacks the key 'tool', whose
\* 'params' is missing, None or a dict; 'body' is what the tool's body does
\* when this entry runs it.
BatchEntry(has_tool, tool, params, body) ==
    [has_tool |-> has_tool, tool |-> tool, params |-> params, body |-> body]

BatchEntries ==
    { BatchEntry(FALSE, Absent, DictParams([k \in {"vega_spec"} |-> "S0"]), BodyAnalysis),
      BatchEntry(TRUE, "", AbsentParams, BodyAnalysis),
      BatchEntry(TRUE, "no_such_tool", DictParams(EmptyDict), BodyAnalysis),
      BatchEntry(TRUE, "zoom", AbsentParams, BodyAnalysis),
      BatchEntry(TRUE, "sort_bars", DictParams([k \in {"vega_spec"} |-> "S0"]), BodySpec("S1")),
      BatchEntry(TRUE, "sort_bars", DictParams([k \in {"vega_spec"} |-> "S0"]), BodyFail),
      BatchEntry(TRUE, "sort_bars", DictParams([k \in {"vega_spec"} |-> "S0"]), BodyRaise),
      BatchEntry(TRUE, "sort_bars", NoneParams, BodyAnalysis) }

\* tool_call.get('tool') is falsy
NoToolName(tool_call) == ~tool_call.has_tool \/ tool_call.tool = ""

\* tool_call.get('params', {})
EntryParams(tool_call) ==
    IF tool_call.params.kind = "absent" THEN DictParams(EmptyDict) ELSE tool_call.params

NotSpecified == Result(FALSE, "Tool name not specified", <<>>, <<>>, Absent, Absent)

BatchOutcome(raised, results, dispatched, history, logged) ==
    [raised |-> raised, results |-> results, dispatched |-> dispatched,
     history |-> history, logged |-> logged]

\* the loop of lines 128-137 from entry i on; 'dispatched' lists the entries
\* handed to execute, 'logged' the records written so far
RECURSIVE BatchLoop(_, _, _, _, _, _, _)

\* lines 136-137 for entry i, whose execute call yielded out; an exception of
\* execute leaves the loop and the method
BatchStep(tool_calls, i, results, dispatched, logged, now, out) ==
    IF out.raised
    THEN BatchOutcome(TRUE, results, Append(dispatched, i), out.history, logged)
    ELSE BatchLoop(tool_calls, i + 1, Append(results, out.result),
                   Append(dispatched, i), out.history, logged \o out.logged, now)

BatchLoop(tool_calls, i, results, dispatched, history, logged, now) ==
    IF i > Len(tool_calls)
    THEN BatchOutcome(FALSE, results, dispatched, history, logged)
    ELSE IF NoToolName(tool_calls[i])
    THEN BatchLoop(tool_calls, i + 1, Append(results, NotSpecified), dispatched,
                   history, logged, now)
    ELSE BatchStep(tool_calls, i, results, dispatched, logged, now,
                   execute(tool_calls[i].tool, EntryParams(tool_calls[i]), TRUE,
                           tool_calls[i].body, history, now + Len(logged) + 1))

\* ToolExecutor.execute_batch
execute_batch(tool_calls, history, now) ==
    BatchLoop(tool_calls, 1, <<>>, <<>>, history, <<>>, now)

BatchCalls == UNION {[1..n -> BatchEntries] : n \in 0..MaxBatch}

NoBatch == [called |-> FALSE, tool_calls |-> <<>>, returned |-> FALSE,
            raised |-> FALSE, results |-> <<>>, dispatched |-> <<>>,
            logged |-> <<>>]

\* One call of ToolExecutor.execute_batch by a direct caller.
ExecuteBatch(tool_calls) ==
    /\ ~batch.called
    /\ \E out \in {execute_batch(tool_calls, execution_history, clock)} :
        /\ batch' = [called |-> TRUE, tool_calls |-> tool_calls,
                     returned |-> ~out.raised, raised |-> out.raised,
                     results |-> IF out.raised THEN <<>> ELSE out.results,
                     dispatched |-> out.dispatched, logged |-> out.logged]
        /\ execution_history' = out.history
        /\ clock' = clock + Len(out.logged)
    /\ UNCHANGED <<calls, exec_call, exec_ret, goalVars, threadVars,
                   openai_tools, anthropic_tools, prompt_string, intent_call,
                   extraction, store, store_call>>

ExecuteBatchAny == \E tool_calls \in BatchCalls : ExecuteBatch(tool_calls)

(***************************************************************************)
(* Goal-oriented mode engine                                               *)
(***************************************************************************)
\* Settings.MAX_GOAL_ORIENTED_ITERATIONS, the configured maximum of the loop
\* (the shipped configuration sets 15).
MAX_GOAL_ORIENTED_ITERATIONS == 2

\* The user's queries, in the order they are asked.
Queries == <<"query 1", "query 2">>

\* VegaService.render as the engine sees it: an image that is a function of
\* the spec, or a failure.
ImageOf(spec) == "image of " \o spec

render(spec, ok) ==
    IF ok
    THEN [success |-> TRUE, image_base64 |-> ImageOf(spec), error |-> Absent]
    ELSE [success |-> FALSE, image_base64 |-> Absent, error |-> "render error"]

\* A transcript turn.  'text' is the variable part of the turn's text and
\* 'tool' the tool name the text quotes; 'kind' names the f-string used.
UserMsg(kind, tool, text, image) ==
    [role |-> "user", kind |-> kind, tool |-> tool, text |-> text, image |-> image]

AssistantMsg(text) ==
    [role |-> "assistant", kind |-> "reply", tool |-> Absent, text |-> text, image |-> Absent]

\* decision["tool_call"]: missing or falsy ("absent"), a truthy value that is
\* not a dict ("nondict"), or a dict with or without the key "tool".
NoToolCall ==
    [shape |-> "absent", has_tool |-> FALSE, tool |-> Absent, params |-> AbsentParams]

NonDictToolCall ==
    [shape |-> "nondict", has_tool |-> FALSE, tool |-> Absent, params |-> AbsentParams]

ToolCallWithoutTool ==
    [shape |-> "dict", has_tool |-> FALSE, tool |-> Absent, params |-> AbsentParams]

ToolCall(tool, params) ==
    [shape |-> "dict", has_tool |-> TRUE, tool |-> tool, params |-> params]

Decision(goal_achieved, tool_call) ==
    [goal_achieved |-> goal_achieved, tool_call |-> tool_call]

\* VLMService.call(messages, system_prompt, expect_json=True)
VlmOk(content, decision) ==
    [success |-> TRUE, content |-> content, parsed_json |-> decision, error |-> Absent]

VlmError ==
    [success |-> FALSE, content |-> Absent,
     parsed_json |-> Decision(FALSE, NoToolCall), error |-> "vlm error"]

\* The Endpoint's possible answers in one round.
Responses ==
    { VlmError,
      VlmOk("goal achieved", Decision(TRUE, NoToolCall)),
      VlmOk("still thinking", Decision(FALSE, NoToolCall)),
      VlmOk("call sort_bars",
            Decision(FALSE, ToolCall("sort_bars",
                                     DictParams([k \in {"vega_spec"} |-> "model spec"])))),
      VlmOk("call zoom", Decision(FALSE, ToolCall("zoom", AbsentParams))),
      VlmOk("call no_such_tool",
            Decision(FALSE, ToolCall("no_such_tool", DictParams(EmptyDict)))),
      VlmOk("tool_call lacks tool", Decision(FALSE, ToolCallWithoutTool)),
      VlmOk("tool_call is text", Decision(TRUE, NonDictToolCall)),
      VlmOk("params is null", Decision(FALSE, ToolCall("sort_bars", NoneParams))) }

\* What the body of a tool the engine dispatches can do.
EngineBodies == {BodySpec("S1"), BodyAnalysis, BodyFail, BodyRaise}

NoToolExecution ==
    [tool_name |-> Absent, tool_params |-> EmptyDict, tool_result |-> NoResult]

\* iteration_record as built at lines 85-98
IterationRecord(n, decision, raw, image) ==
    [iteration |-> n, success |-> TRUE, error |-> Absent,
     has_decision |-> TRUE, decision |-> decision, vlm_raw_output |-> raw,
     images |-> <<image>>,
     has_tool_execution |-> FALSE, tool_execution |-> NoToolExecution]

\* Faulty variant of the failed round's record: the error is dropped.
FailedIteration_without_error(n, error) ==
    [iteration |-> n, success |-> FALSE, error |-> Absent,
     has_decision |-> FALSE, decision |-> Decision(FALSE, NoToolCall),
     vlm_raw_output |-> Absent, images |-> <<>>,
     has_tool_execution |-> FALSE, tool_execution |-> NoToolExecution]

\* the record of a round whose Endpoint call failed, lines 63-68
FailedIteration(n, error) ==
    [iteration |-> n, success |-> FALSE, error |-> error,
     has_decision |-> FALSE, decision |-> Decision(FALSE, NoToolCall),
     vlm_raw_output |-> Absent, images |-> <<>>,
     has_tool_execution |-> FALSE, tool_execution |-> NoToolExecution]

\* Faulty variant of InjectSpec: a vega_spec the model sent is kept.
InjectSpec_keeps_model_value(items, spec) ==
    [k \in (DOMAIN items) \cup {"vega_spec"} |->
        IF k \in DOMAIN items THEN items[k] ELSE spec]

\* tool_params['vega_spec'] = current_spec
InjectSpec(items, spec) ==
    [k \in (DOMAIN items) \cup {"vega_spec"} |->
        IF k = "vega_spec" THEN spec ELSE items[k]]

NoExec == Outcome(FALSE, NoResult, FALSE, EmptyDict, <<>>, <<>>)

\* Faulty variant of the loop body's effect: a failed tool ends the loop.
Step_stops_on_tool_failure(exit, kind, msgs, iters, spec, image, dispatched, out) ==
    [exit |-> IF kind = "tool_failed" THEN "break" ELSE exit,
     kind |-> kind, messages |-> msgs, iterations |-> iters,
     current_spec |-> spec, current_image |-> image,
     dispatched |-> dispatched, out |-> out]

\* The effect of one pass through the loop body: how it leaves the loop
\* ("continue", "break", "raise"), what it did, and the locals after it.
Step(exit, kind, msgs, iters, spec, image, dispatched, out) ==
    [exit |-> exit, kind |-> kind, messages |-> msgs, iterations |-> iters,
     current_spec |-> spec, current_image |-> image,
     dispatched |-> dispatched, out |-> out]

\* Faulty variant of the line-122 test: every successful result is rendered.
CallsRenderer_any_success(tool_result) ==
    tool_result.success

\* Line 122: the branch that re-renders, tool_result.get("success") and
\* "vega_spec" in tool_result.  self.vega.render is called nowhere else in
\* the loop.
CallsRenderer(tool_result) ==
    tool_result.success /\ tool_result.vega_spec # Absent

\* Lines 106-181: the decision carries a truthy tool_call.
ToolRound(decision, record, body, render_ok, msgs1, iters, spec, image, history, now) ==
    LET tool_call == decision.tool_call
    IN  IF ~tool_call.has_tool
        THEN \* tool_call["tool"]: KeyError
             Step("raise", "raised", msgs1, iters, spec, image, FALSE, NoExec)
        ELSE IF tool_call.params.kind = "none"
        THEN \* None['vega_spec'] = ...: TypeError
             Step("raise", "raised", msgs1, iters, spec, image, FALSE, NoExec)
        ELSE
        LET tool_name == tool_call.tool
            tool_params == InjectSpec(tool_call.params.items, spec)
            \* a params dict of the decision is the object that was updated
            decision1 == IF tool_call.params.kind = "dict"
                         THEN [decision EXCEPT !.tool_call.params.items = tool_params]
                         ELSE decision
            out == execute(tool_name, DictParams(tool_params), TRUE, body, history, now)
            tool_result == out.result
            record1 == [record EXCEPT
                          !.decision = decision1,
                          !.has_tool_execution = TRUE,
                          !.tool_execution =
                              [tool_name |-> tool_name,
                               tool_params |-> Without(tool_params, "vega_spec"),
                               tool_result |-> tool_result]]
        IN  IF CallsRenderer(tool_result)
            THEN LET new_spec == tool_result.vega_spec
                     render_result == render(new_spec, render_ok)
                 IN  IF render_result.success
                     THEN Step("continue", "rendered",
                               Append(msgs1, UserMsg("tool succeeded", tool_name,
                                                     tool_result.message,
                                                     render_result.image_base64)),
                               Append(iters, [record1 EXCEPT !.images =
                                                Append(@, render_result.image_base64)]),
                               new_spec, render_result.image_base64, TRUE, out)
                     ELSE Step("continue", "render_failed",
                               Append(msgs1, UserMsg("render failed", tool_name,
                                                     render_result.error, image)),
                               Append(iters, [record1 EXCEPT !.success = FALSE]),
                               new_spec, image, TRUE, out)
            ELSE IF tool_result.success
            THEN Step("continue", "analysis",
                      Append(msgs1, UserMsg("analysis", tool_name,
                                            tool_result.message, image)),
                      Append(iters, record1), spec, image, TRUE, out)
            ELSE Step("continue", "tool_failed",
                      Append(msgs1, UserMsg("tool failed", tool_name,
                                            tool_result.error, image)),
                      Append(iters, [record1 EXCEPT !.success = FALSE]),
                      spec, image, TRUE, out)

\* Faulty variant of Round: the reply is not appended to the transcript.
Round_reply_not_kept(response, body, render_ok, n, msgs, iters, spec, image, history, now) ==
    IF ~response.success
    THEN Step("break", "vlm_failed", msgs,
              Append(iters, FailedIteration(n, response.error)),
              spec, image, FALSE, NoExec)
    ELSE LET decision == response.parsed_json
             msgs1 == msgs
             record == IterationRecord(n, decision, response.content, image)
         IN  IF decision.tool_call.shape = "nondict"
             THEN \* line 80: decision.get('tool_call', {}).get(...) on a non-dict
                  Step("raise", "raised", msgs1, iters, spec, image, FALSE, NoExec)
             ELSE IF decision.goal_achieved
             THEN Step("break", "achieved", msgs1, Append(iters, record),
                       spec, image, FALSE, NoExec)
             ELSE IF decision.tool_call.shape # "absent"
             THEN ToolRound(decision, record, body, render_ok, msgs1, iters,
                            spec, image, history, now)
             ELSE Step("continue", "no_tool", msgs1, Append(iters, record),
                       spec, image, FALSE, NoExec)

\* Lines 56-183: one pass through the loop body, round number n.
Round(response, body, render_ok, n, msgs, iters, spec, image, history, now) ==
    IF ~response.success
    THEN Step("break", "vlm_failed", msgs,
              Append(iters, FailedIteration(n, response.error)),
              spec, image, FALSE, NoExec)
    ELSE LET decision == response.parsed_json
             msgs1 == Append(msgs, AssistantMsg(response.content))
             record == IterationRecord(n, decision, response.content, image)
         IN  IF decision.tool_call.shape = "nondict"
             THEN \* line 80: decision.get('tool_call', {}).get(...) on a non-dict
                  Step("raise", "raised", msgs1, iters, spec, image, FALSE, NoExec)
             ELSE IF decision.goal_achieved
             THEN Step("break", "achieved", msgs1, Append(iters, record),
                       spec, image, FALSE, NoExec)
             ELSE IF decision.tool_call.shape # "absent"
             THEN ToolRound(decision, record, body, render_ok, msgs1, iters,
                            spec, image, history, now)
             ELSE Step("continue", "no_tool", msgs1, Append(iters, record),
                       spec, image, FALSE, NoExec)

NoRound == [kind |-> "none", exit |-> "none", n |-> 0,
            pre_spec |-> Absent, pre_image |-> Absent, pre_messages |-> 0,
            pre_iterations |-> 0, vlm_ok |-> FALSE, raw |-> Absent,
            dispatched |-> FALSE, rendered |-> FALSE, tool_result |-> NoResult]

NoFrame == [user_query |-> Absent, caller |-> Absent, aliased |-> FALSE,
            iteration |-> 0, base_len |-> 0, vlm_calls |-> 0,
            all_ok |-> TRUE, achieved_round |-> 0]

NoGoReturn == [returned |-> FALSE, raised |-> FALSE, success |-> FALSE,
               iterations |-> <<>>, final_spec |-> Absent, final_image |-> Absent]

\* A session as create_session leaves it: the spec, its rendered image and
\* no goal-oriented transcript yet.
InitGoal ==
    /\ session = [vega_spec |-> "S0", current_image |-> ImageOf("S0"),
                  has_goal_keys |-> FALSE,
                  goal_oriented_messages |-> <<>>,
                  goal_oriented_iterations |-> <<>>]
    /\ next_query = 1
    /\ pc = "idle"
    /\ frame = NoFrame
    /\ messages = <<>>
    /\ iterations = <<>>
    /\ current_spec = Absent
    /\ current_image = Absent
    /\ round_log = NoRound
    /\ go_ret = NoGoReturn

\* Lines 30-45.  caller = "process_query": SessionManager.process_query
\* passes the session as context; caller = "direct": context is None.
GoalStart(caller) ==
    /\ pc = "idle"
    /\ next_query <= Len(Queries)
    /\ LET user_query == Queries[next_query]
           has_context == caller = "process_query"
           aliased == has_context /\ session.has_goal_keys
           ctx_messages == IF has_context THEN session.goal_oriented_messages ELSE <<>>
           ctx_iterations == IF has_context THEN session.goal_oriented_iterations ELSE <<>>
           first == UserMsg("initial", Absent, user_query, session.current_image)
           msgs == IF Len(ctx_messages) = 0 THEN <<first>> ELSE ctx_messages
       IN  /\ messages' = msgs
           /\ iterations' = ctx_iterations
           /\ session' = IF aliased
                         THEN [session EXCEPT !.goal_oriented_messages = msgs]
                         ELSE session
           /\ frame' = [user_query |-> user_query, caller |-> caller,
                        aliased |-> aliased, iteration |-> 0,
                        base_len |-> Len(ctx_iterations), vlm_calls |-> 0,
                        all_ok |-> TRUE, achieved_round |-> 0]
    /\ current_spec' = session.vega_spec
    /\ current_image' = session.current_image
    /\ next_query' = next_query + 1
    /\ pc' = "loop"
    /\ round_log' = NoRound
    /\ go_ret' = NoGoReturn
    /\ UNCHANGED <<execVars, threadVars, callVars>>

\* One pass through the body of 'for iteration in range(MAX...)'.
GoalRound(response, body, render_ok) ==
    /\ pc = "loop"
    /\ frame.iteration < MAX_GOAL_ORIENTED_ITERATIONS
    /\ \E step \in {Round(response, body, render_ok, frame.iteration + 1, messages,
                          iterations, current_spec, current_image,
                          execution_history, clock + 1)} :
        /\ messages' = step.messages
        /\ iterations' = step.iterations
        /\ current_spec' = step.current_spec
        /\ current_image' = step.current_image
        /\ session' = IF frame.aliased
                      THEN [session EXCEPT
                              !.goal_oriented_messages = step.messages,
                              !.goal_oriented_iterations = step.iterations]
                      ELSE session
        /\ frame' = [frame EXCEPT
                       !.iteration = IF step.exit = "continue" THEN @ + 1 ELSE @,
                       !.vlm_calls = @ + 1,
                       !.all_ok = @ /\ response.success,
                       !.achieved_round =
                           IF response.success /\ response.parsed_json.goal_achieved
                           THEN frame.iteration + 1 ELSE @]
        /\ round_log' = [kind |-> step.kind, exit |-> step.exit,
                         n |-> frame.iteration + 1,
                         pre_spec |-> current_spec, pre_image |-> current_image,
                         pre_messages |-> Len(messages),
                         pre_iterations |-> Len(iterations),
                         vlm_ok |-> response.success,
                         raw |-> response.content,
                         dispatched |-> step.dispatched,
                         rendered |-> step.dispatched /\ CallsRenderer(step.out.result),
                         tool_result |-> step.out.result]
        /\ pc' = CASE step.exit = "continue" -> "loop"
                   [] step.exit = "break" -> "exit"
                   [] OTHER -> "idle"
        /\ go_ret' = IF step.exit = "raise"
                     THEN [NoGoReturn EXCEPT !.raised = TRUE]
                     ELSE go_ret
        /\ IF step.dispatched
           THEN /\ execution_history' = step.out.history
                /\ clock' = clock + Len(step.out.logged)
                /\ exec_call' = [tool_name |-> response.parsed_json.tool_call.tool,
                                 params |-> DictParams(InjectSpec(
                                     response.parsed_json.tool_call.params.items,
                                     current_spec)),
                                 validate |-> TRUE]
                /\ exec_ret' = [returned |-> ~step.out.raised, raised |-> step.out.raised,
                                result |-> step.out.result, invoked |-> step.out.invoked,
                                args |-> step.out.args, logged |-> step.out.logged]
           ELSE UNCHANGED <<execution_history, clock, exec_call, exec_ret>>
        /\ UNCHANGED <<calls, next_query, threadVars, callVars>>

\* The inputs of a round are drawn only as far as the round uses them.
DispatchesTool(response) ==
    /\ response.success
    /\ ~response.parsed_json.goal_achieved
    /\ response.parsed_json.tool_call.shape = "dict"
    /\ response.parsed_json.tool_call.has_tool
    /\ response.parsed_json.tool_call.params.kind # "none"
    /\ response.parsed_json.tool_call.tool \in ToolNames

GoalRoundAny ==
    \E response \in Responses :
        \E body \in (IF DispatchesTool(response) THEN EngineBodies ELSE {BodyAnalysis}) :
            \E render_ok \in (IF DispatchesTool(response) /\ body.kind = "spec"
                              THEN BOOLEAN ELSE {TRUE}) :
                GoalRound(response, body, render_ok)

\* Lines 185-196, and for a call made by process_query the session update
\* of session_manager.py lines 139-142 that follows the return.
GoalReturn ==
    /\ \/ pc = "exit"
       \/ pc = "loop" /\ frame.iteration = MAX_GOAL_ORIENTED_ITERATIONS
    /\ go_ret' = [returned |-> TRUE, raised |-> FALSE, success |-> TRUE,
                  iterations |-> iterations,
                  final_spec |-> current_spec, final_image |-> current_image]
    /\ session' = IF frame.caller = "process_query"
                  THEN [session EXCEPT
                          !.has_goal_keys = TRUE,
                          !.goal_oriented_messages = messages,
                          !.goal_oriented_iterations = iterations,
                          !.vega_spec = current_spec,
                          !.current_image = current_image]
                  ELSE session
    /\ pc' = "idle"
    /\ UNCHANGED <<execVars, next_query, frame, messages, iterations,
                   current_spec, current_image, round_log, threadVars, callVars>>

(***************************************************************************)
(* Schema adapter: the catalog in two tool-calling dialects and as text    *)
(***************************************************************************)
\* The values of ChartType
ChartTypes ==
    {"bar_chart", "line_chart", "scatter_plot", "parallel_coordinates",
     "heatmap", "sankey_diagram", "unknown"}

\* chart_type = None, the default of the adapter's methods
NoChartType == "None"

\* list(d.keys()) of a group of descriptors
Keys(d) == [i \in 1..Len(d) |-> d[i].name]

common_tools == SubSeq(register_all_tools, 1, 8)

bar_chart_tools_dict == SubSeq(register_all_tools, 9, 12)

line_chart_tools_dict == SubSeq(register_all_tools, 13, 16)

scatter_tools == SubSeq(register_all_tools, 17, 20)

heatmap_tools_dict == SubSeq(register_all_tools, 21, 25)

parallel_coords_tools_dict == SubSeq(register_all_tools, 26, 28)

sankey_tools_dict == SubSeq(register_all_tools, 29, 31)

\* ToolRegistry._chart_tools: the tools of the kind, then the common ones
_chart_tools ==
    [chart_type \in ChartTypes \ {"unknown"} |->
        CASE chart_type = "bar_chart" -> Keys(bar_chart_tools_dict) \o Keys(common_tools)
          [] chart_type = "line_chart" -> Keys(line_chart_tools_dict) \o Keys(common_tools)
          [] chart_type = "scatter_plot" -> Keys(scatter_tools) \o Keys(common_tools)
          [] chart_type = "heatmap" -> Keys(heatmap_tools_dict) \o Keys(common_tools)
          [] chart_type = "parallel_coordinates" ->
                Keys(parallel_coords_tools_dict) \o Keys(common_tools)
          [] chart_type = "sankey_diagram" -> Keys(sankey_tools_dict) \o Keys(common_tools)]

\* Faulty variant of list_tools_for_chart: the filter is ignored.
list_tools_for_chart_whole_catalog(chart_type) == list_all_tools

\* self._chart_tools.get(chart_type, list(self._tools.keys()))
list_tools_for_chart(chart_type) ==
    IF chart_type \in DOMAIN _chart_tools
    THEN _chart_tools[chart_type]
    ELSE list_all_tools

\* The names the loop keeps. "if chart_type:" - every member of the
\* enumeration is truthy, None is not; "if not tool_info: continue".
KeptToolNames(chart_type) ==
    SelectSeq(IF chart_type # NoChartType
              THEN list_tools_for_chart(chart_type)
              ELSE list_all_tools,
              LAMBDA n : get_tool(n) # <<>>)

\* tool_info['description'], a text of its own for each tool
Description(tool_name) == "description of " \o tool_name

type_mapping(param_type) ==
    CASE param_type = "str" -> "string"
      [] param_type = "int" -> "integer"
      [] param_type = "float" -> "number"
      [] param_type = "bool" -> "boolean"
      [] param_type = "list" -> "array"
      [] param_type = "dict" -> "object"
      [] param_type = "tuple" -> "array"
      [] param_type = "any" -> "string"
      [] OTHER -> "string"

\* schema["properties"][name]; 'default' is a key only when the spec has it
SchemaProperty(param_spec) ==
    [type |-> type_mapping(param_spec.type),
     description |-> "Parameter " \o param_spec.name \o " of type " \o param_spec.type,
     default |-> IF param_spec.has_default THEN param_spec.default ELSE Absent]

RequiredParams(params) ==
    LET marked == SelectSeq(params, LAMBDA p : p.required)
    IN  [i \in 1..Len(marked) |-> marked[i].name]

\* 'required' is a key of the schema only when the list is not empty
_convert_params_to_json_schema(params) ==
    [type |-> "object",
     properties |-> [n \in {params[i].name : i \in 1..Len(params)} |->
                       SchemaProperty(CHOOSE p \in Range(params) : p.name = n)],
     has_required |-> RequiredParams(params) # <<>>,
     required |-> RequiredParams(params)]

\* lines 40-48: the entries appended for the names the loop keeps
OpenAITools(tool_names) ==
    [i \in 1..Len(tool_names) |->
        [type |-> "function",
         function |->
            [name |-> tool_names[i],
             description |-> Description(tool_names[i]),
             parameters |->
                _convert_params_to_json_schema(get_tool(tool_names[i])[1].params)]]]

to_openai_format(chart_type) == OpenAITools(KeptToolNames(chart_type))

\* lines 75-80: the entries appended for the names the loop keeps
AnthropicTools(tool_names) ==
    [i \in 1..Len(tool_names) |->
        [name |-> tool_names[i],
         description |-> Description(tool_names[i]),
         input_schema |->
            _convert_params_to_json_schema(get_tool(tool_names[i])[1].params)]]

\* Faulty variant of to_anthropic_format: always the whole catalog.
to_anthropic_format_unfiltered(chart_type) == AnthropicTools(list_all_tools)

to_anthropic_format(chart_type) == AnthropicTools(KeptToolNames(chart_type))

\* one line of params_desc
ParamStr(param_spec) ==
    "  - " \o param_spec.name \o " (" \o param_spec.type \o ")"
        \o (IF param_spec.required THEN " [REQUIRED]"
            ELSE IF param_spec.has_default
                 THEN " [default=" \o param_spec.default \o "]"
                 ELSE "")

\* sep.join(lines)
RECURSIVE Join(_, _)
Join(sep, lines) ==
    IF lines = <<>> THEN ""
    ELSE IF Len(lines) = 1 THEN lines[1]
    ELSE lines[1] \o sep \o Join(sep, Tail(lines))

\* lines 108-127: tool_desc of one tool
ToolDesc(tool_name, tool_info) ==
    [name |-> tool_name,
     category |-> tool_info.category,
     description |-> Description(tool_name),
     parameters |-> IF tool_info.params # <<>>
                    THEN Join("\n", [k \in 1..Len(tool_info.params) |->
                                        ParamStr(tool_info.params[k])])
                    ELSE "No parameters"]

GenericTools(tool_names) ==
    [i \in 1..Len(tool_names) |-> ToolDesc(tool_names[i], get_tool(tool_names[i])[1])]

to_generic_format(chart_type) == GenericTools(KeptToolNames(chart_type))

\* the keys of 'categories', in the order the loop first meets them
RECURSIVE CategoryKeys(_, _)
CategoryKeys(tools, seen) ==
    IF tools = <<>> THEN <<>>
    ELSE IF Head(tools).category \in seen
         THEN CategoryKeys(Tail(tools), seen)
         ELSE <<Head(tools).category>>
                  \o CategoryKeys(Tail(tools), seen \cup {Head(tools).category})

\* category.upper()
Upper(category) ==
    CASE category = "perception" -> "PERCEPTION"
      [] category = "action" -> "ACTION"
      [] category = "analysis" -> "ANALYSIS"
      [] category = "unknown" -> "UNKNOWN"
      [] OTHER -> category

RECURSIVE Concat(_)
Concat(seqs) == IF seqs = <<>> THEN <<>> ELSE Head(seqs) \o Concat(Tail(seqs))

ToolHeading(tool_name) == "\n### " \o tool_name

\* (the fence of the source is three backquotes, written ~~~ here)
UsageFormatParts ==
    <<"\n## Tool Usage Format\n",
      "To use a tool, respond with JSON in this format:\n",
      "~~~json\n",
      "{\n",
      "  \"tool\": \"tool_name\",\n",
      "  \"params\": {\n",
      "    \"vega_spec\": {...},\n",
      "    \"param1\": \"value1\",\n",
      "    \"param2\": \"value2\"\n",
      "  },\n",
      "  \"reason\": \"Why you are calling this tool\"\n",
      "}\n",
      "~~~\n">>

\* The parts appended for one category and its tools
CategoryParts(category, cat_tools) ==
    <<"\n## " \o Upper(category) \o " Tools\n">>
        \o Concat([i \in 1..Len(cat_tools) |->
                      <<ToolHeading(cat_tools[i].name),
                        "\n" \o cat_tools[i].description,
                        "\n**Parameters:**\n" \o cat_tools[i].parameters \o "\n">>])

\* prompt_parts built from the generic descriptions
PromptParts(tools, categories) ==
    <<"# Available Tools\n">>
        \o Concat([c \in 1..Len(categories) |->
                      CategoryParts(categories[c],
                                    SelectSeq(tools, LAMBDA t : t.category = categories[c]))])
        \o UsageFormatParts

\* prompt_parts as the method builds it; the returned text is "".join of it
to_prompt_string(chart_type) ==
    PromptParts(to_generic_format(chart_type),
                CategoryKeys(to_generic_format(chart_type), {}))

NoAdapterCall == [called |-> FALSE, chart_type |-> NoChartType, output |-> <<>>]

AdapterCall(chart_type, output) ==
    [called |-> TRUE, chart_type |-> chart_type, output |-> output]

\* Calls of the adapter's three conversions, each with a filter of its own
ToOpenAIFormat(chart_type) ==
    /\ openai_tools' = AdapterCall(chart_type, to_openai_format(chart_type))
    /\ UNCHANGED <<anthropic_tools, prompt_string, intent_call,
                   execVars, goalVars, threadVars, entryVars>>

ToAnthropicFormat(chart_type) ==
    /\ anthropic_tools' = AdapterCall(chart_type, to_anthropic_format(chart_type))
    /\ UNCHANGED <<openai_tools, prompt_string, intent_call,
                   execVars, goalVars, threadVars, entryVars>>

ToPromptString(chart_type) ==
    /\ prompt_string' = AdapterCall(chart_type, to_prompt_string(chart_type))
    /\ UNCHANGED <<openai_tools, anthropic_tools, intent_call,
                   execVars, goalVars, threadVars, entryVars>>

(***************************************************************************)
(* Intent recognition by SessionManager._recognize_intent                  *)
(***************************************************************************)
\* A text is the sequence of its characters; a character outside ASCII is
\* written by its code point.
Uppercase ==
    <<"A", "B", "C", "D", "E", "F", "G", "H", "I", "J", "K", "L", "M",
      "N", "O", "P", "Q", "R", "S", "T", "U", "V", "W", "X", "Y", "Z">>

Lowercase ==
    <<"a", "b", "c", "d", "e", "f", "g", "h", "i", "j", "k", "l", "m",
      "n", "o", "p", "q", "r", "s", "t", "u", "v", "w", "x", "y", "z">>

\* str.lower()
lower(text) ==
    [i \in 1..Len(text) |->
        IF \E k \in 1..Len(Uppercase) : Uppercase[k] = text[i]
        THEN Lowercase[CHOOSE k \in 1..Len(Uppercase) : Uppercase[k] = text[i]]
        ELSE text[i]]

\* str.strip()
strip(text) ==
    LET inked == {i \in 1..Len(text) : text[i] \notin {" ", "\t", "\n"}}
    IN  IF inked = {} THEN <<>>
        ELSE SubSeq(text, CHOOSE i \in inked : \A j \in inked : i <= j,
                          CHOOSE i \in inked : \A j \in inked : j <= i)

\* "keyword in text"
Contains(keyword, text) ==
    \E i \in 0..Len(text) :
        /\ i + Len(keyword) <= Len(text)
        /\ SubSeq(text, i + 1, i + Len(keyword)) = keyword

greetings ==
   << <<"U+4F60", "U+597D">>,
      <<"U+60A8", "U+597D">>,
      <<"h", "i">>,
      <<"h", "e", "l", "l", "o">>,
      <<"h", "e", "y">>,
      <<"U+55E8">>,
      <<"h", "o", "l", "a">>,
      <<"U+65E9", "U+4E0A", "U+597D">>,
      <<"U+4E2D", "U+5348", "U+597D">>,
      <<"U+4E0B", "U+5348", "U+597D">>,
      <<"U+665A", "U+4E0A", "U+597D">>,
      <<"U+65E9", "U+5B89">>,
      <<"U+665A", "U+5B89">> >>

polite_words ==
   << <<"U+8C22", "U+8C22">>,
      <<"U+591A", "U+8C22">>,
      <<"t", "h", "a", "n", "k", "s">>,
      <<"t", "h", "a", "n", "k", " ", "y", "o", "u">>,
      <<"t", "h", "x">>,
      <<"U+518D", "U+89C1">>,
      <<"U+62DC", "U+62DC">>,
      <<"b", "y", "e">>,
      <<"g", "o", "o", "d", "b", "y", "e">>,
      <<"s", "e", "e", " ", "y", "o", "u">> >>

system_queries ==
   << <<"U+4F60", "U+662F", "U+8C01">>,
      <<"U+4F60", "U+53EB", "U+4EC0", "U+4E48">>,
      <<"U+4F60", "U+80FD", "U+505A", "U+4EC0", "U+4E48">>,
      <<"U+4F60", "U+4F1A", "U+4EC0", "U+4E48">>,
      <<"U+600E", "U+4E48", "U+7528">>,
      <<"U+600E", "U+4E48", "U+4F7F", "U+7528">>,
      <<"U+5982", "U+4F55", "U+4F7F", "U+7528">>,
      <<"U+4F7F", "U+7528", "U+65B9", "U+6CD5">>,
      <<"w", "h", "a", "t", " ", "c", "a", "n", " ", "y", "o", "u", " ", "d", "o">>,
      <<"h", "o", "w", " ", "t", "o", " ", "u", "s", "e">>,
      <<"w", "h", "o", " ", "a", "r", "e", " ", "y", "o", "u">> >>

explicit_actions ==
   << <<"U+7B5B", "U+9009">>,
      <<"U+8FC7", "U+6EE4">>,
      <<"f", "i", "l", "t", "e", "r">>,
      <<"s", "e", "l", "e", "c", "t">>,
      <<"U+653E", "U+5927">>,
      <<"U+7F29", "U+5C0F">>,
      <<"z", "o", "o", "m">>,
      <<"s", "c", "a", "l", "e">>,
      <<"U+9AD8", "U+4EAE">>,
      <<"U+7A81", "U+51FA">>,
      <<"h", "i", "g", "h", "l", "i", "g", "h", "t">>,
      <<"e", "m", "p", "h", "a", "s", "i", "z", "e">>,
      <<"U+6392", "U+5E8F">>,
      <<"s", "o", "r", "t">>,
      <<"o", "r", "d", "e", "r">>,
      <<"U+663E", "U+793A">>,
      <<"U+9690", "U+85CF">>,
      <<"s", "h", "o", "w">>,
      <<"h", "i", "d", "e">>,
      <<"U+5BF9", "U+6BD4">>,
      <<"U+6BD4", "U+8F83">>,
      <<"c", "o", "m", "p", "a", "r", "e">>,
      <<"c", "o", "n", "t", "r", "a", "s", "t">>,
      <<"U+9009", "U+62E9">>,
      <<"U+9009", "U+4E2D">>,
      <<"c", "h", "o", "o", "s", "e">>,
      <<"p", "i", "c", "k">>,
      <<"U+8C03", "U+6574">>,
      <<"U+4FEE", "U+6539">>,
      <<"a", "d", "j", "u", "s", "t">>,
      <<"m", "o", "d", "i", "f", "y">>,
      <<"U+805A", "U+7126">>,
      <<"f", "o", "c", "u", "s">>,
      <<"U+53EA", "U+770B">>,
      <<"U+53EA", "U+663E", "U+793A">>,
      <<"o", "n", "l", "y", " ", "s", "h", "o", "w">>,
      <<"U+53BB", "U+6389">>,
      <<"U+5220", "U+9664">>,
      <<"r", "e", "m", "o", "v", "e">>,
      <<"d", "e", "l", "e", "t", "e">>,
      <<"U+6DFB", "U+52A0">>,
      <<"U+589E", "U+52A0">>,
      <<"a", "d", "d">>,
      <<"U+6539", "U+6210">>,
      <<"U+6362", "U+6210">>,
      <<"c", "h", "a", "n", "g", "e", " ", "t", "o">>,
      <<"U+8BBE", "U+7F6E", "U+4E3A">>,
      <<"s", "e", "t", " ", "t", "o">> >>

QueryWords ==
   << <<"U+4F60", "U+597D">>,
      <<"H", "i", " ">>,
      <<"t", "h", "a", "n", "k", "s">>,
      <<"U+4F60", "U+662F", "U+8C01">>,
      <<"h", "o", "w", " ", "t", "o", " ", "u", "s", "e">>,
      <<"U+7B5B", "U+9009">>,
      <<"U+51FA", "U+9500", "U+91CF", "U+524D", "U+5341", "U+7684", "U+5546", "U+54C1">>,
      <<"s", "o", "r", "t">>,
      <<"t", "h", "i", "s">>,
      <<"t", "r", "e", "n", "d">>,
      <<" ", " ">>,
      <<"W", "h", "a", "t", " ", "a", "b", "o", "u", "t", " ", "t", "h", "e", " ", "d", "a", "t", "a">> >>

HelloQuery == <<"U+4F60", "U+597D">>

TopTenQuery == <<"U+7B5B", "U+9009", "U+51FA", "U+9500", "U+91CF", "U+524D", "U+5341", "U+7684", "U+5546", "U+54C1">>

\* The member of IntentType with this value, IntentType.UNKNOWN without one
IntentTypes == {"chitchat", "explicit_analysis", "vague_exploration", "unknown"}

\* What vlm.call_with_image gives back
VlmIntent(success, intent_type) == [success |-> success, intent_type |-> intent_type]

IntentResponses ==
    {VlmIntent(TRUE, l) : l \in IntentTypes \cup {"analysis", "Chitchat", Absent}}
        \cup {VlmIntent(FALSE, Absent)}

\* the keywords of the list found in the text, in the order of the loop
Matches(keywords, text) == SelectSeq(keywords, LAMBDA k : Contains(k, text))

Recognized(intent, rule, vlm_calls) ==
    [intent |-> intent, rule |-> rule, vlm_calls |-> vlm_calls]

\* Faulty variant of VlmRecognition: a failed call is taken for small talk.
VlmRecognition_failure_as_chitchat(response) ==
    LET intent_str == IF response.intent_type = Absent
                      THEN "unknown"
                      ELSE response.intent_type
    IN  IF ~response.success
        THEN Recognized("chitchat", "vlm", 1)
        ELSE IF intent_str \in IntentTypes
        THEN Recognized(intent_str, "vlm", 1)
        ELSE Recognized("unknown", "vlm", 1)

\* lines 229-250: the fallback on the Endpoint
VlmRecognition(response) ==
    LET intent_str == IF response.intent_type = Absent
                      THEN "unknown"
                      ELSE response.intent_type
    IN  IF response.success /\ intent_str \in IntentTypes
        THEN Recognized(intent_str, "vlm", 1)
        ELSE Recognized("unknown", "vlm", 1)

\* Faulty variant of _recognize_intent: the action keywords are tested first.
_recognize_intent_actions_first(user_query, response) ==
    LET query_lower == strip(lower(user_query))
    IN  IF Matches(explicit_actions, query_lower) # <<>>
        THEN Recognized("explicit_analysis", "action", 0)
        ELSE IF Len(query_lower) < 10
                  /\ Matches(greetings \o polite_words, query_lower) # <<>>
        THEN Recognized("chitchat", "greeting", 0)
        ELSE IF Matches(system_queries, query_lower) # <<>>
        THEN Recognized("chitchat", "system query", 0)
        ELSE VlmRecognition(response)

_recognize_intent(user_query, response) ==
    LET query_lower == strip(lower(user_query))
    IN  IF Len(query_lower) < 10 /\ Matches(greetings, query_lower) # <<>>
        THEN Recognized("chitchat", "greeting", 0)
        ELSE IF Len(query_lower) < 10 /\ Matches(polite_words, query_lower) # <<>>
        THEN Recognized("chitchat", "polite", 0)
        ELSE IF Matches(system_queries, query_lower) # <<>>
        THEN Recognized("chitchat", "system query", 0)
        ELSE IF Matches(explicit_actions, query_lower) # <<>>
        THEN Recognized("explicit_analysis", "action", 0)
        ELSE VlmRecognition(response)

\* The queries put to intent recognition: one word, two words with a
\* space between them, and the two queries of the scenarios
UserQueries ==
    Range(QueryWords) \cup {HelloQuery, TopTenQuery}
        \cup {QueryWords[i] \o <<" ">> \o QueryWords[j] :
                 i \in 1..Len(QueryWords), j \in 1..Len(QueryWords)}

\* _recognize_intent keeps nothing between two calls: one call per behaviour
\* covers them all
RecognizeIntent(user_query, response) ==
    /\ ~intent_call.called
    /\ intent_call' = [called |-> TRUE, user_query |-> user_query,
                       response |-> response,
                       recognized |-> _recognize_intent(user_query, response)]
    /\ UNCHANGED <<openai_tools, anthropic_tools, prompt_string,
                   execVars, goalVars, threadVars, entryVars>>

(***************************************************************************)
(* Structured output: core/utils/json_utils.py                             *)
(*                                                                         *)
(* A text is a sequence of tokens: the four brackets, a key with its colon *)
(* ("k:") and a number ("1").  Over these tokens JSON has the values       *)
(* 1, {}, {"k": v}, [] and [v].  A parsed value is written as the token    *)
(* sequence that denotes it.                                               *)
(***************************************************************************)
MaxText == 5

Tokens == {"{", "}", "[", "]", "k:", "1"}

Texts == UNION {[1..n -> Tokens] : n \in 0..MaxText}

EmptyObject == <<"{", "}">>

\* the position after the JSON value that starts at position i, 0 if none
\* starts there
RECURSIVE ValueEnd(_, _)

\* the value at i + 1 is closed by the bracket 'close'
ClosedAt(t, e, close) ==
    IF e # 0 /\ e <= Len(t) /\ t[e] = close THEN e + 1 ELSE 0

ValueEnd(t, i) ==
    IF i > Len(t) THEN 0
    ELSE IF t[i] = "1" THEN i + 1
    ELSE IF t[i] = "{" /\ i + 1 <= Len(t)
    THEN IF t[i + 1] = "}" THEN i + 2
         ELSE IF t[i + 1] = "k:" THEN ClosedAt(t, ValueEnd(t, i + 2), "}")
         ELSE 0
    ELSE IF t[i] = "[" /\ i + 1 <= Len(t)
    THEN IF t[i + 1] = "]" THEN i + 2
         ELSE ClosedAt(t, ValueEnd(t, i + 1), "]")
    ELSE 0

\* safe_json_loads: the value, or None (<<>>) when the string is not JSON
safe_json_loads(json_str) ==
    IF ValueEnd(json_str, 1) = Len(json_str) + 1 THEN json_str ELSE <<>>

\* bool(result) for a parsed value: None, {} and [] are falsy
Truthy(result) == result # <<>> /\ result # EmptyObject /\ result # <<"[", "]">>

\* str.find and str.rfind of a one-character string: a position, 0 for -1
find(text, c) ==
    IF \E i \in 1..Len(text) : text[i] = c
    THEN CHOOSE i \in 1..Len(text) :
            text[i] = c /\ \A j \in 1..(i - 1) : text[j] # c
    ELSE 0

rfind(text, c) ==
    IF \E i \in 1..Len(text) : text[i] = c
    THEN CHOOSE i \in 1..Len(text) :
            text[i] = c /\ \A j \in (i + 1)..Len(text) : text[j] # c
    ELSE 0

\* text[start_idx:end_idx+1] parsed, when both markers are found in order
Between(text, open, close) ==
    IF find(text, open) # 0 /\ rfind(text, close) > find(text, open)
    THEN safe_json_loads(SubSeq(text, find(text, open), rfind(text, close)))
    ELSE <<>>

\* extract_json_from_text
extract_json_from_text(text) ==
    IF Truthy(Between(text, "{", "}")) /\ Between(text, "{", "}")[1] = "{"
    THEN Between(text, "{", "}")
    ELSE IF Truthy(Between(text, "[", "]"))
    THEN EmptyObject
    ELSE EmptyObject

NoExtraction == [called |-> FALSE, text |-> <<>>, value |-> EmptyObject]

\* extract_json_from_text keeps nothing between two calls: one call per
\* behaviour covers them all
Extract(text) ==
    /\ ~extraction.called
    /\ extraction' = [called |-> TRUE, text |-> text,
                      value |-> extract_json_from_text(text)]
    /\ UNCHANGED <<execVars, goalVars, threadVars, openai_tools, anthropic_tools,
                   prompt_string, intent_call, batch, store, store_call>>

ExtractAny == \E text \in Texts : Extract(text)

\* The records of the session store, defined further down
\* What an engine returns.  'response' is the key of the chitchat engine,
\* iterations, final_spec and final_image are the keys of a loop engine.
EngineResult(mode, success, error, response, iters, final_spec, final_image) ==
    [mode |-> mode, success |-> success, error |-> error, response |-> response,
     iterations |-> iters, final_spec |-> final_spec, final_image |-> final_image]

NotFound ==
    EngineResult(Absent, FALSE, "Session not found", Absent, <<>>, Absent, Absent)

\* 'result' of a call that returned no dict
NoEngineResult == EngineResult(Absent, FALSE, Absent, Absent, <<>>, Absent, Absent)

\* What the latest call of the SessionManager was and what it yielded;
\* n counts the calls made so far, script is what the Endpoint, the tool
\* bodies and the renderer answered to the engine
StoreCall(n, op, session_id, user_query, script, intent, raised, result, created, vlm_calls, tool_calls, render_calls) ==
    [n |-> n, op |-> op, session_id |-> session_id, user_query |-> user_query,
     script |-> script,
     intent |-> intent, raised |-> raised, result |-> result, created |-> created,
     vlm_calls |-> vlm_calls, tool_calls |-> tool_calls,
     render_calls |-> render_calls]

NoStoreCall ==
    StoreCall(0, Absent, 0, <<>>, <<>>, Recognized("unknown", Absent, 0), FALSE,
              NoEngineResult, 0, 0, 0, 0)

NoStore ==
    /\ store = <<>>
    /\ store_call = NoStoreCall

\* No conversion and no recognition has been called
NoCalls ==
    /\ openai_tools = NoAdapterCall
    /\ anthropic_tools = NoAdapterCall
    /\ prompt_string = NoAdapterCall
    /\ intent_call = [called |-> FALSE, user_query |-> <<>>,
                      response |-> VlmIntent(FALSE, Absent),
                      recognized |-> Recognized("unknown", Absent, 0)]
    /\ batch = NoBatch
    /\ extraction = NoExtraction
    /\ NoStore

(***************************************************************************)
(* Two threads calling SessionManager on the same session                  *)
(***************************************************************************)
Threads == {1, 2}

\* The list objects: 0 is the pair of lists the session dict refers to when
\* the calls start, t the pair of fresh lists thread t creates at lines
\* 31-32 when the session dict has no goal_oriented_* keys.
TranscriptIds == {0} \cup Threads

NoTranscript == [messages |-> <<>>, iterations |-> <<>>]

\* One round of a scripted call: the Endpoint's answer, what the tool body
\* does and whether the render succeeds.
ScriptRound(response, body, render_ok) ==
    [response |-> response, body |-> body, render_ok |-> render_ok]

AchievedAtOnce ==
    << ScriptRound(VlmOk("goal achieved", Decision(TRUE, NoToolCall)), BodyAnalysis, TRUE) >>

SortThenAchieved ==
    << ScriptRound(VlmOk("call sort_bars",
                         Decision(FALSE, ToolCall("sort_bars",
                                    DictParams([k \in {"vega_spec"} |-> "model spec"])))),
                   BodySpec("S1"), TRUE),
       ScriptRound(VlmOk("goal achieved", Decision(TRUE, NoToolCall)), BodyAnalysis, TRUE) >>

Scripts == {AchievedAtOnce, SortThenAchieved}

ProcessQueryCall(user_query, script) ==
    [op |-> "process_query", user_query |-> user_query, script |-> script]

ResetViewCall == [op |-> "reset_view", user_query |-> Absent, script |-> <<>>]

\* The session dict with its lists written out.
SessionDict(spec, image, has_keys, msgs, iters, history) ==
    [vega_spec |-> spec, original_spec |-> "S0", current_image |-> image,
     has_goal_keys |-> has_keys,
     goal_oriented_messages |-> msgs, goal_oriented_iterations |-> iters,
     conversation_history |-> history]

\* The loop of GoalOrientedMode.execute run to its end on a scripted
\* Endpoint, from round n on.
RECURSIVE RunRounds(_, _, _, _, _, _)
RunRounds(script, n, msgs, iters, spec, image) ==
    IF n > Len(script) \/ n > MAX_GOAL_ORIENTED_ITERATIONS
    THEN [messages |-> msgs, iterations |-> iters,
          current_spec |-> spec, current_image |-> image]
    ELSE CHOOSE end \in
            {IF step.exit = "continue"
             THEN RunRounds(script, n + 1, step.messages, step.iterations,
                            step.current_spec, step.current_image)
             ELSE [messages |-> step.messages, iterations |-> step.iterations,
                   current_spec |-> step.current_spec,
                   current_image |-> step.current_image] :
                step \in {Round(script[n].response, script[n].body,
                                script[n].render_ok,
                                n, msgs, iters, spec, image, <<>>, 0)}} : TRUE

\* process_query run alone on session dict d (an explicit-action query)
RunProcessQuery(d, call) ==
    LET msgs == IF Len(d.goal_oriented_messages) = 0
                THEN <<UserMsg("initial", Absent, call.user_query, d.current_image)>>
                ELSE d.goal_oriented_messages
    IN  CHOOSE after \in
            {SessionDict(end.current_spec, end.current_image, TRUE,
                         end.messages, end.iterations,
                         Append(d.conversation_history, call.user_query)) :
                end \in {RunRounds(call.script, 1, msgs, d.goal_oriented_iterations,
                                   d.vega_spec, d.current_image)}} : TRUE

\* reset_view run alone on session dict d
RunResetView(d) ==
    [d EXCEPT !.vega_spec = d.original_spec,
              !.current_image = render(d.original_spec, TRUE).image_base64]

RunAlone(d, call) ==
    IF call.op = "process_query" THEN RunProcessQuery(d, call) ELSE RunResetView(d)

\* A session as create_session leaves it, and a session on which one
\* goal-oriented query has already run.
NewSession == SessionDict("S0", ImageOf("S0"), FALSE, <<>>, <<>>, <<>>)

UsedSession == RunProcessQuery(NewSession, ProcessQueryCall("query 0", SortThenAchieved))

ThreadState(call) ==
    [call |-> call, pc |-> "start", round |-> 0,
     current_spec |-> Absent, current_image |-> Absent, transcript |-> 0]

InitThreads ==
    /\ session0 \in {NewSession, UsedSession}
    /\ sessions = [vega_spec |-> session0.vega_spec,
                   original_spec |-> session0.original_spec,
                   current_image |-> session0.current_image,
                   has_goal_keys |-> session0.has_goal_keys,
                   transcript |-> 0,
                   conversation_history |-> session0.conversation_history]
    /\ heap = [i \in TranscriptIds |->
                 IF i = 0
                 THEN [messages |-> session0.goal_oriented_messages,
                       iterations |-> session0.goal_oriented_iterations]
                 ELSE NoTranscript]
    /\ \E script1 \in Scripts :
         \E call2 \in {ProcessQueryCall("query 2", sc) : sc \in Scripts} \cup {ResetViewCall} :
            threads = [t \in Threads |->
                         IF t = 1 THEN ThreadState(ProcessQueryCall("query 1", script1))
                                  ELSE ThreadState(call2)]
    /\ recorders = <<>>

\* No threads: the single-caller specifications.
NoThreads ==
    /\ session0 = NewSession
    /\ sessions = [vega_spec |-> Absent, original_spec |-> Absent,
                   current_image |-> Absent, has_goal_keys |-> FALSE,
                   transcript |-> 0, conversation_history |-> <<>>]
    /\ heap = [i \in TranscriptIds |-> NoTranscript]
    /\ threads = <<>>
    /\ recorders = <<>>

\* The shared session dict with the lists it refers to written out.
SessionNow ==
    SessionDict(sessions.vega_spec, sessions.current_image, sessions.has_goal_keys,
                IF sessions.has_goal_keys THEN heap[sessions.transcript].messages ELSE <<>>,
                IF sessions.has_goal_keys THEN heap[sessions.transcript].iterations ELSE <<>>,
                sessions.conversation_history)

\* process_query up to the loop: session_manager.py 118-138 reads the spec
\* and the image for the call; goal_oriented_mode.py 31-45 takes the
\* session's lists (or fresh ones) and adds the first user turn.
ProcessQueryStart(t) ==
    /\ threads[t].pc = "start"
    /\ threads[t].call.op = "process_query"
    /\ LET tid == IF sessions.has_goal_keys THEN sessions.transcript ELSE t
       IN  /\ heap' = IF Len(heap[tid].messages) = 0
                      THEN [heap EXCEPT ![tid].messages =
                              <<UserMsg("initial", Absent, threads[t].call.user_query,
                                        sessions.current_image)>>]
                      ELSE heap
           /\ threads' = [threads EXCEPT ![t] =
                            [@ EXCEPT !.pc = "loop",
                                      !.current_spec = sessions.vega_spec,
                                      !.current_image = sessions.current_image,
                                      !.transcript = tid]]
    /\ UNCHANGED <<sessions, session0, recorders, execVars, goalVars, callVars>>

\* One pass through the loop body by thread t.
ProcessQueryRound(t) ==
    /\ threads[t].pc = "loop"
    /\ \E me \in {threads[t]} :
       \E n \in {me.round + 1} :
       \E step \in {Round(me.call.script[n].response, me.call.script[n].body,
                           me.call.script[n].render_ok, n,
                           heap[me.transcript].messages, heap[me.transcript].iterations,
                           me.current_spec, me.current_image,
                           execution_history, clock + 1)} :
           /\ heap' = [heap EXCEPT ![me.transcript] =
                          [messages |-> step.messages, iterations |-> step.iterations]]
           /\ threads' = [threads EXCEPT ![t] =
                            [@ EXCEPT !.round = n,
                                      !.current_spec = step.current_spec,
                                      !.current_image = step.current_image,
                                      !.pc = IF /\ step.exit = "continue"
                                                /\ n < Len(me.call.script)
                                                /\ n < MAX_GOAL_ORIENTED_ITERATIONS
                                             THEN "loop" ELSE "return"]]
           /\ execution_history' = IF step.dispatched THEN step.out.history
                                   ELSE execution_history
           /\ clock' = IF step.dispatched THEN clock + Len(step.out.logged) ELSE clock
    /\ UNCHANGED <<sessions, session0, recorders, calls, exec_call, exec_ret, goalVars, callVars>>

\* goal_oriented_mode.py 186-196 and session_manager.py 139-160.
ProcessQueryReturn(t) ==
    /\ threads[t].pc = "return"
    /\ sessions' = [sessions EXCEPT
                      !.has_goal_keys = TRUE,
                      !.transcript = threads[t].transcript,
                      !.vega_spec = threads[t].current_spec,
                      !.current_image = threads[t].current_image,
                      !.conversation_history = Append(@, threads[t].call.user_query)]
    /\ threads' = [threads EXCEPT ![t].pc = "done"]
    /\ UNCHANGED <<session0, heap, recorders, execVars, goalVars, callVars>>

\* reset_view, lines 261-264: the spec is reset and the render is started.
ResetViewStart(t) ==
    /\ threads[t].pc = "start"
    /\ threads[t].call.op = "reset_view"
    /\ sessions' = [sessions EXCEPT !.vega_spec = sessions.original_spec]
    /\ threads' = [threads EXCEPT ![t] =
                     [@ EXCEPT !.pc = "render", !.current_spec = sessions.original_spec]]
    /\ UNCHANGED <<session0, heap, recorders, execVars, goalVars, callVars>>

\* reset_view, lines 265-268: the render's image is stored.
ResetViewFinish(t) ==
    /\ threads[t].pc = "render"
    /\ sessions' = [sessions EXCEPT
                      !.current_image = render(threads[t].current_spec, TRUE).image_base64]
    /\ threads' = [threads EXCEPT ![t].pc = "done"]
    /\ UNCHANGED <<session0, heap, recorders, execVars, goalVars, callVars>>

InitSessions == InitExecutor({0}) /\ InitGoal /\ InitThreads /\ NoCalls

NextSessions ==
    \E t \in Threads :
        \/ ProcessQueryStart(t)
        \/ ProcessQueryRound(t)
        \/ ProcessQueryReturn(t)
        \/ ResetViewStart(t)
        \/ ResetViewFinish(t)

SpecSessions == InitSessions /\ [][NextSessions]_vars

(***************************************************************************)
(* Threads recording into the process-wide execution log                   *)
(***************************************************************************)
\* Dispatches of concurrently running sessions, each at its call of
\* _record_execution on the one ToolExecutor of the process.
Recorders == {1, 2, 3}

RecordedTools == <<"sort_bars", "zoom", "filter">>

NearlyFull == {HistoryCap - 1, HistoryCap}

InitLog ==
    /\ InitExecutor(NearlyFull)
    /\ InitGoal
    /\ session0 = NewSession
    /\ sessions = [vega_spec |-> Absent, original_spec |-> Absent,
                   current_image |-> Absent, has_goal_keys |-> FALSE,
                   transcript |-> 0, conversation_history |-> <<>>]
    /\ heap = [i \in TranscriptIds |-> NoTranscript]
    /\ threads = <<>>
    /\ recorders = [t \in Recorders |->
                      [pc |-> "append", record |-> NoCall, trimmed |-> <<>>]]
    /\ NoCalls

\* Lines 107-118: the record is built and appended to the list that
\* self.execution_history refers to.
RecordAppend(t) ==
    /\ recorders[t].pc = "append"
    /\ LET record == ExecutionRecord(clock + 1, RecordedTools[t], EmptyDict,
                                     ToolBodyResult(BodyAnalysis), TRUE)
       IN  /\ execution_history' = Append(execution_history, record)
           /\ recorders' = [recorders EXCEPT ![t] =
                              [@ EXCEPT !.pc = "check", !.record = record]]
    /\ clock' = clock + 1
    /\ UNCHANGED <<calls, exec_call, exec_ret, goalVars,
                   sessions, session0, heap, threads, callVars>>

\* Line 121: len(self.execution_history) > 100
RecordCheck(t) ==
    /\ recorders[t].pc = "check"
    /\ recorders' = [recorders EXCEPT ![t].pc =
                       IF Len(execution_history) > HistoryCap THEN "slice" ELSE "done"]
    /\ UNCHANGED <<execVars, goalVars, sessions, session0, heap, threads, callVars>>

\* Line 122, right-hand side: self.execution_history[-100:], a new list
RecordSlice(t) ==
    /\ recorders[t].pc = "slice"
    /\ recorders' = [recorders EXCEPT ![t] =
                       [@ EXCEPT !.pc = "store",
                                 !.trimmed = SubSeq(execution_history,
                                                    Len(execution_history) - HistoryCap + 1,
                                                    Len(execution_history))]]
    /\ UNCHANGED <<execVars, goalVars, sessions, session0, heap, threads, callVars>>

\* Line 122, the assignment: self.execution_history = <the new list>
RecordStore(t) ==
    /\ recorders[t].pc = "store"
    /\ execution_history' = recorders[t].trimmed
    /\ recorders' = [recorders EXCEPT ![t].pc = "done"]
    /\ UNCHANGED <<clock, calls, exec_call, exec_ret, goalVars,
                   sessions, session0, heap, threads, callVars>>

NextLog ==
    \E t \in Recorders :
        \/ RecordAppend(t)
        \/ RecordCheck(t)
        \/ RecordSlice(t)
        \/ RecordStore(t)

SpecLog == InitLog /\ [][NextLog]_vars

(***************************************************************************)
(* The session store: SessionManager.create_session, process_query and     *)
(* reset_view called one after the other, and the engines they hand a      *)
(* query to.  A session identifier is the position of the session in the   *)
(* store (uuid4 never repeats an identifier); the timestamps created_at    *)
(* and last_activity are left out.                                         *)
(***************************************************************************)
MaxSessions == 2

MaxStoreCalls == 3

\* Identifiers a caller passes: those of the store and one that is in no store
SessionIds == 1..(MaxSessions + 1)

\* the session dict of lines 61-70; the keys an engine adds later are
\* written with a flag
SessionData(session_id, vega_spec, image_base64, chart_type) ==
    [session_id |-> session_id,
     vega_spec |-> vega_spec,
     original_spec |-> vega_spec,
     current_image |-> image_base64,
     chart_type |-> chart_type,
     conversation_history |-> <<>>,
     has_chitchat_messages |-> FALSE, chitchat_messages |-> <<>>,
     has_goal_keys |-> FALSE,
     goal_oriented_messages |-> <<>>, goal_oriented_iterations |-> <<>>]

\* What a call of an engine yields: its result or an exception, the session
\* dict after the call, the dispatcher's log, and the calls it made
EngineRun(raised, result, context, history, logged, vlm_calls, tool_calls, render_calls) ==
    [raised |-> raised, result |-> result, context |-> context,
     history |-> history, logged |-> logged, vlm_calls |-> vlm_calls,
     tool_calls |-> tool_calls, render_calls |-> render_calls]

\* Faulty variant of ChitchatMode.execute: the reply is returned and the
\* transcript is not saved.
chitchat_execute_not_saved(user_query, image_base64, context, response, history) ==
    IF response.success
    THEN EngineRun(FALSE,
                   EngineResult("chitchat", TRUE, Absent, response.content,
                                <<>>, Absent, Absent),
                   context, history, 0, 1, 0, 0)
    ELSE EngineRun(FALSE,
                   EngineResult("chitchat", FALSE, response.error, Absent,
                                <<>>, Absent, Absent),
                   context, history, 0, 1, 0, 0)

\* ChitchatMode.execute with the session dict as context.  messages is the
\* session's list when the key is there and a new list otherwise.
chitchat_execute(user_query, image_base64, context, response, history) ==
    LET msgs == IF context.has_chitchat_messages
                THEN context.chitchat_messages ELSE <<>>
        user_message == UserMsg("chitchat", Absent, user_query, image_base64)
    IN  IF response.success
        THEN EngineRun(FALSE,
                       EngineResult("chitchat", TRUE, Absent, response.content,
                                    <<>>, Absent, Absent),
                       [context EXCEPT
                          !.has_chitchat_messages = TRUE,
                          !.chitchat_messages =
                              msgs \o <<user_message,
                                            AssistantMsg(response.content)>>],
                       history, 0, 1, 0, 0)
        ELSE EngineRun(FALSE,
                       EngineResult("chitchat", FALSE, response.error, Absent,
                                    <<>>, Absent, Absent),
                       IF context.has_chitchat_messages
                       THEN [context EXCEPT
                               !.chitchat_messages = Append(msgs, user_message)]
                       ELSE context,
                       history, 0, 1, 0, 0)

\* The locals of a running loop engine, the dispatcher's log, and the calls
\* made so far
LoopState(msgs, iters, spec, image, history, logged, vlm_calls, tool_calls, render_calls, exit) ==
    [messages |-> msgs, iterations |-> iters,
     current_spec |-> spec, current_image |-> image,
     history |-> history, logged |-> logged, vlm_calls |-> vlm_calls,
     tool_calls |-> tool_calls, render_calls |-> render_calls, exit |-> exit]

\* the loop's state after the pass 'step' made from state 'at'
AfterRound(at, step) ==
    LoopState(step.messages, step.iterations, step.current_spec, step.current_image,
              IF step.dispatched THEN step.out.history ELSE at.history,
              at.logged + (IF step.dispatched THEN Len(step.out.logged) ELSE 0),
              at.vlm_calls + 1,
              at.tool_calls + (IF step.dispatched THEN 1 ELSE 0),
              at.render_calls +
                  (IF step.dispatched /\ CallsRenderer(step.out.result) THEN 1 ELSE 0),
              step.exit)

\* The loop of GoalOrientedMode.execute (lines 47-183) from round n on, the
\* Endpoint, the tool bodies and the renderer answering as the script says;
\* 'now' is the clock when the engine was called
RECURSIVE RunLoop(_, _, _, _)

ContinueLoop(script, n, now, after) ==
    IF after.exit = "continue" THEN RunLoop(script, n + 1, now, after) ELSE after

RunLoop(script, n, now, at) ==
    IF n > Len(script) \/ n > MAX_GOAL_ORIENTED_ITERATIONS
    THEN [at EXCEPT !.exit = "break"]
    ELSE ContinueLoop(script, n, now,
            AfterRound(at, Round(script[n].response, script[n].body,
                                 script[n].render_ok, n, at.messages, at.iterations,
                                 at.current_spec, at.current_image,
                                 at.history, now + at.logged + 1)))

\* lines 185-196 when the loop was left by break or by its last pass, and
\* the session dict as an exception leaves it: the lists of the dict are
\* the lists the loop appended to when the dict had the keys
GoalRun(context, end) ==
    IF end.exit = "raise"
    THEN EngineRun(TRUE, NoEngineResult,
                   IF context.has_goal_keys
                   THEN [context EXCEPT !.goal_oriented_messages = end.messages,
                                        !.goal_oriented_iterations = end.iterations]
                   ELSE context,
                   end.history, end.logged, end.vlm_calls, end.tool_calls,
                   end.render_calls)
    ELSE EngineRun(FALSE,
                   EngineResult("goal_oriented", TRUE, Absent, Absent,
                                end.iterations, end.current_spec, end.current_image),
                   [context EXCEPT !.has_goal_keys = TRUE,
                                   !.goal_oriented_messages = end.messages,
                                   !.goal_oriented_iterations = end.iterations],
                   end.history, end.logged, end.vlm_calls, end.tool_calls,
                   end.render_calls)

\* the transcript the loop starts from, lines 30-42
FirstMessages(context, user_query, image_base64) ==
    IF context.has_goal_keys /\ Len(context.goal_oriented_messages) > 0
    THEN context.goal_oriented_messages
    ELSE <<UserMsg("initial", Absent, user_query, image_base64)>>

\* GoalOrientedMode.execute with the session dict as context
goal_execute(user_query, vega_spec, image_base64, context, script, history, now) ==
    GoalRun(context,
            RunLoop(script, 1, now,
                    LoopState(FirstMessages(context, user_query, image_base64),
                              IF context.has_goal_keys
                              THEN context.goal_oriented_iterations ELSE <<>>,
                              vega_spec, image_base64, history, 0, 0, 0, 0,
                              "continue")))

\* what AutonomousExplorationMode.execute returns for the loop's end state
ExploreRun(context, end) ==
    EngineRun(FALSE,
              EngineResult("autonomous_exploration", TRUE, Absent, Absent,
                           end.iterations, end.current_spec, end.current_image),
              context, end.history, end.logged, end.vlm_calls, end.tool_calls,
              end.render_calls)

\* AutonomousExplorationMode.execute: the iterate-decide-dispatch-render
\* loop of the goal-oriented engine, started from the session's spec and
\* image, returning the loop's last spec and image
explore_execute(user_query, vega_spec, image_base64, context, script, history, now) ==
    ExploreRun(context,
               RunLoop(script, 1, now,
                       LoopState(<<UserMsg("initial", Absent, user_query, image_base64)>>,
                                 <<>>, vega_spec, image_base64, history, 0, 0, 0, 0,
                                 "continue")))

\* get_candidate_chart_types(vega_spec) and the Endpoint's answer to the
\* question of lines 85-92
ChartGuess(candidates, response) == [candidates |-> candidates, response |-> response]

ChartGuesses ==
    { ChartGuess(<<"bar_chart">>, [success |-> FALSE, chart_type |-> Absent]),
      ChartGuess(<<"bar_chart", "line_chart">>,
                 [success |-> TRUE, chart_type |-> "line_chart"]),
      ChartGuess(<<>>, [success |-> FALSE, chart_type |-> Absent]) }

\* SessionManager._identify_chart_type: the chart type and the number of
\* Endpoint calls made
_identify_chart_type(guess) ==
    IF Len(guess.candidates) = 1 /\ guess.candidates[1] # "unknown"
    THEN [chart_type |-> guess.candidates[1], vlm_calls |-> 0]
    ELSE IF guess.response.success /\ guess.response.chart_type \in ChartTypes
    THEN [chart_type |-> guess.response.chart_type, vlm_calls |-> 1]
    ELSE [chart_type |-> "unknown", vlm_calls |-> 1]

\* 'created' of a call that returned None
NoSessionId == 0

ResetDone == EngineResult(Absent, TRUE, Absent, "View reset to original state",
                          <<>>, Absent, Absent)

\* Faulty variant of create_session: the session is stored whatever the
\* render gave.
create_session_stored_anyway(vega_spec, render_result, identified) ==
    Append(store, SessionData(Len(store) + 1, vega_spec,
                              render_result.image_base64, identified.chart_type))

\* SessionManager.create_session: the store after the call
create_session(vega_spec, render_result, identified) ==
    IF ~render_result.success
    THEN store
    ELSE Append(store, SessionData(Len(store) + 1, vega_spec,
                                   render_result.image_base64,
                                   identified.chart_type))

CreateSession(vega_spec, render_ok, guess) ==
    /\ store_call.n < MaxStoreCalls
    /\ Len(store) < MaxSessions
    /\ \E render_result \in {render(vega_spec, render_ok)} :
       \E identified \in {_identify_chart_type(guess)} :
          /\ store' = create_session(vega_spec, render_result, identified)
          /\ store_call' =
                StoreCall(store_call.n + 1, "create_session", 0, vega_spec,
                          <<[render_ok |-> render_ok, guess |-> guess]>>,
                          Recognized("unknown", Absent, 0), FALSE, NoEngineResult,
                          IF render_result.success THEN Len(store) + 1 ELSE NoSessionId,
                          IF render_result.success THEN identified.vlm_calls ELSE 0,
                          0, 1)
    /\ UNCHANGED <<execVars, goalVars, threadVars, openai_tools, anthropic_tools,
                   prompt_string, intent_call, batch, extraction>>

\* SessionManager.reset_view: the store after the call
\* Faulty variant of reset_view: the assignment goes the other way, the
\* current spec becomes the original.
reset_view_rebases(session_id, render_result) ==
    IF session_id \notin DOMAIN store
    THEN store
    ELSE [store EXCEPT
            ![session_id].original_spec = store[session_id].vega_spec,
            ![session_id].current_image =
                IF render_result.success THEN render_result.image_base64 ELSE @]

reset_view(session_id, render_result) ==
    IF session_id \notin DOMAIN store
    THEN store
    ELSE [store EXCEPT
            ![session_id].vega_spec = store[session_id].original_spec,
            ![session_id].current_image =
                IF render_result.success THEN render_result.image_base64 ELSE @]

ResetView(session_id, render_ok) ==
    /\ store_call.n < MaxStoreCalls
    /\ \E found \in {session_id \in DOMAIN store} :
       \E render_result \in {IF found
                             THEN render(store[session_id].original_spec, render_ok)
                             ELSE render(Absent, FALSE)} :
          /\ store' = reset_view(session_id, render_result)
          /\ store_call' =
                StoreCall(store_call.n + 1, "reset_view", session_id, <<>>, <<>>,
                          Recognized("unknown", Absent, 0), FALSE,
                          IF found THEN ResetDone ELSE NotFound,
                          NoSessionId, 0, 0, IF found THEN 1 ELSE 0)
    /\ UNCHANGED <<execVars, goalVars, threadVars, openai_tools, anthropic_tools,
                   prompt_string, intent_call, batch, extraction>>

\* The call of the engine that the intent selects, lines 128-150
\* Faulty variant of EngineCall: an unclassified query is answered by the
\* chitchat engine.
EngineCall_unknown_is_chitchat(d, user_query, intent, script, history, now) ==
    IF intent \in {"chitchat", "unknown"}
    THEN chitchat_execute(user_query, d.current_image, d, script[1].response, history)
    ELSE IF intent = "explicit_analysis"
    THEN goal_execute(user_query, d.vega_spec, d.current_image, d, script, history, now)
    ELSE explore_execute(user_query, d.vega_spec, d.current_image, d, script,
                         history, now)

EngineCall(d, user_query, intent, script, history, now) ==
    IF intent = "chitchat"
    THEN chitchat_execute(user_query, d.current_image, d, script[1].response, history)
    ELSE IF intent = "explicit_analysis"
    THEN goal_execute(user_query, d.vega_spec, d.current_image, d, script, history, now)
    ELSE explore_execute(user_query, d.vega_spec, d.current_image, d, script,
                         history, now)

HistoryEntry(user_query, intent, result) ==
    [query |-> user_query, intent |-> intent, result |-> result]

\* Lines 139-158: the session dict after the engine returned
AfterEngine(user_query, intent, run) ==
    [run.context EXCEPT
        !.vega_spec = IF intent = "explicit_analysis" /\ run.result.success
                      THEN run.result.final_spec ELSE @,
        !.current_image = IF intent = "explicit_analysis" /\ run.result.success
                          THEN run.result.final_image ELSE @,
        !.conversation_history =
            Append(@, HistoryEntry(user_query, intent, run.result))]

\* Faulty variant of process_query: an unknown identifier gets a new session.
process_query_creates(session_id, user_query, intent, run) ==
    IF session_id \notin DOMAIN store
    THEN Append(store, SessionData(Len(store) + 1, "S0", ImageOf("S0"), "unknown"))
    ELSE IF run.raised
    THEN [store EXCEPT ![session_id] = run.context]
    ELSE [store EXCEPT ![session_id] = AfterEngine(user_query, intent, run)]

\* SessionManager.process_query: the store after the call.  An exception of
\* the engine leaves the method before line 153.
\* Faulty variant of process_query: the engine's context and the updates
\* land in one session dict that all identifiers share.
process_query_shared(session_id, user_query, intent, run) ==
    IF session_id \notin DOMAIN store
    THEN store
    ELSE [id \in DOMAIN store |->
            [(IF run.raised THEN run.context
              ELSE AfterEngine(user_query, intent, run))
             EXCEPT !.session_id = id]]

process_query(session_id, user_query, intent, run) ==
    IF session_id \notin DOMAIN store
    THEN store
    ELSE IF run.raised
    THEN [store EXCEPT ![session_id] = run.context]
    ELSE [store EXCEPT ![session_id] = AfterEngine(user_query, intent, run)]

NoRun == EngineRun(FALSE, NotFound, SessionData(0, Absent, Absent, Absent),
                   <<>>, 0, 0, 0, 0)

ProcessQuery(session_id, user_query, response, script) ==
    /\ store_call.n < MaxStoreCalls
    /\ \E found \in {session_id \in DOMAIN store} :
       \E recognized \in {IF found THEN _recognize_intent(user_query, response)
                          ELSE Recognized("unknown", Absent, 0)} :
       \E run \in {IF found
                   THEN EngineCall(store[session_id], user_query, recognized.intent,
                                   script, execution_history, clock)
                   ELSE NoRun} :
          /\ store' = process_query(session_id, user_query, recognized.intent, run)
          /\ store_call' =
                StoreCall(store_call.n + 1, "process_query", session_id, user_query,
                          script, recognized, run.raised,
                          run.result, NoSessionId,
                          recognized.vlm_calls + run.vlm_calls,
                          run.tool_calls, run.render_calls)
          /\ execution_history' = IF found THEN run.history ELSE execution_history
          /\ clock' = clock + run.logged
    /\ UNCHANGED <<calls, exec_call, exec_ret, goalVars, threadVars, openai_tools,
                   anthropic_tools, prompt_string, intent_call, batch, extraction>>

\* The queries put to the store: a greeting, an explicit action, and one
\* that no keyword classifies
StoreQueries == {HelloQuery, TopTenQuery, QueryWords[7]}

StoreIntentResponses ==
    {VlmIntent(TRUE, "vague_exploration"), VlmIntent(TRUE, "chitchat"),
     VlmIntent(FALSE, Absent)}

\* One exchange of the chitchat engine
ChatScripts ==
    { <<ScriptRound(VlmOk("Hello!", Decision(FALSE, NoToolCall)), BodyAnalysis, TRUE)>>,
      <<ScriptRound(VlmError, BodyAnalysis, TRUE)>> }

SortRound(body, render_ok) ==
    ScriptRound(VlmOk("call sort_bars",
                      Decision(FALSE, ToolCall("sort_bars",
                                 DictParams([k \in {"vega_spec"} |-> "model spec"])))),
                body, render_ok)

\* The runs of a loop engine that end without an exception
ExploreScripts ==
    { AchievedAtOnce, SortThenAchieved,
      <<ScriptRound(VlmError, BodyAnalysis, TRUE)>>,
      <<SortRound(BodySpec("S1"), FALSE), AchievedAtOnce[1]>>,
      <<SortRound(BodyFail, TRUE), ScriptRound(VlmError, BodyAnalysis, TRUE)>> }

\* and the run in which the Endpoint's decision names no tool
LoopScripts ==
    ExploreScripts \cup
    { <<ScriptRound(VlmOk("tool_call lacks tool", Decision(FALSE, ToolCallWithoutTool)),
                    BodyAnalysis, TRUE)>> }

ScriptsFor(found, intent) ==
    IF ~found THEN {<<>>}
    ELSE IF intent = "chitchat" THEN ChatScripts
    ELSE IF intent = "explicit_analysis" THEN LoopScripts
    ELSE ExploreScripts

CreateSessionAny ==
    \E render_ok \in BOOLEAN :
        \E guess \in (IF render_ok THEN ChartGuesses
                      ELSE {ChartGuess(<<"bar_chart">>,
                                       [success |-> FALSE, chart_type |-> Absent])}) :
            CreateSession("S0", render_ok, guess)

ResetViewAny ==
    \E session_id \in SessionIds :
        \E render_ok \in (IF session_id \in DOMAIN store THEN BOOLEAN ELSE {TRUE}) :
            ResetView(session_id, render_ok)

ProcessQueryAny ==
    \E session_id \in SessionIds :
        \E user_query \in (IF session_id \in DOMAIN store
                           THEN StoreQueries ELSE {HelloQuery}) :
            \E response \in (IF session_id \in DOMAIN store
                                  /\ _recognize_intent(user_query,
                                         VlmIntent(FALSE, Absent)).vlm_calls = 1
                             THEN StoreIntentResponses
                             ELSE {VlmIntent(FALSE, Absent)}) :
                \E script \in ScriptsFor(session_id \in DOMAIN store,
                                         _recognize_intent(user_query, response).intent) :
                    ProcessQuery(session_id, user_query, response, script)

Init == InitExecutor({0}) /\ InitGoal /\ NoThreads /\ NoCalls

Next ==
    \/ GoalStart("process_query")
    \/ GoalStart("direct")
    \/ GoalRoundAny
    \/ GoalReturn

Spec == Init /\ [][Next]_vars

InitExec == InitExecutor(EarlierLengths) /\ InitGoal /\ NoThreads /\ NoCalls

NextExec == DispatchAny

SpecExec == InitExec /\ [][NextExec]_vars

NextBatch == ExecuteBatchAny

SpecBatch == InitExec /\ [][NextBatch]_vars

InitCalls == InitExecutor({0}) /\ InitGoal /\ NoThreads /\ NoCalls

NextAdapter ==
    \E chart_type \in ChartTypes \cup {NoChartType} :
        \/ ToOpenAIFormat(chart_type)
        \/ ToAnthropicFormat(chart_type)
        \/ ToPromptString(chart_type)

SpecAdapter == InitCalls /\ [][NextAdapter]_vars

NextIntent ==
    \E user_query \in UserQueries, response \in IntentResponses :
        RecognizeIntent(user_query, response)

SpecIntent == InitCalls /\ [][NextIntent]_vars

NextExtract == ExtractAny

SpecExtract == InitCalls /\ [][NextExtract]_vars

NextStore ==
    \/ CreateSessionAny
    \/ ProcessQueryAny
    \/ ResetViewAny

SpecStore == InitCalls /\ [][NextStore]_vars

(***************************************************************************)
(* Properties                                                              *)
(***************************************************************************)
GoalCallOver == pc = "idle" /\ (go_ret.returned \/ go_ret.raised)

\* C1: when round k is the first whose decision sets goal_achieved, the call
\* makes exactly k Endpoint calls and the iteration list it returns holds
\* exactly k records.
C1_ReturnsExactlyKRecords ==
    (go_ret.returned /\ frame.achieved_round > 0)
        => /\ frame.vlm_calls = frame.achieved_round
           /\ Len(go_ret.iterations) = frame.achieved_round

\* C2: a call whose Endpoint responses all succeed and never set
\* goal_achieved ends by returning success=true after exactly
\* MAX_GOAL_ORIENTED_ITERATIONS Endpoint calls and as many new records.
C2_RunsToTheMaximum ==
    (GoalCallOver /\ frame.all_ok /\ frame.achieved_round = 0)
        => /\ go_ret.returned
           /\ go_ret.success
           /\ frame.vlm_calls = MAX_GOAL_ORIENTED_ITERATIONS
           /\ Len(iterations) - frame.base_len = MAX_GOAL_ORIENTED_ITERATIONS

\* C3: after a round in which the tool returned a new spec and the render
\* failed, current spec and current image are the ones the round started
\* with, the round's record is marked unsuccessful, exactly one user turn
\* (the render-failure report) follows the assistant turn, and the loop
\* goes on.
C3_RenderFailureKeepsSpecAndImage ==
    (round_log.kind = "render_failed")
        => /\ current_spec = round_log.pre_spec
           /\ current_image = round_log.pre_image
           /\ ~iterations[Len(iterations)].success
           /\ Len(messages) = round_log.pre_messages + 2
           /\ messages[Len(messages)].kind = "render failed"
           /\ round_log.exit = "continue"

Alternates(msgs) ==
    \A i \in 1..Len(msgs) :
        msgs[i].role = (IF i % 2 = 1 THEN "user" ELSE "assistant")

\* C4: the session's goal-oriented transcript strictly alternates
\* user/assistant, starting with a user turn.
C4_TranscriptAlternates ==
    Alternates(session.goal_oriented_messages)

C6_UnknownToolIsReported ==
    (calls > 0 /\ \A i \in 1..Len(register_all_tools) :
                     register_all_tools[i].name # exec_call.tool_name)
        => /\ exec_ret.returned
           /\ ~exec_ret.result.success
           /\ \A i \in 1..Len(register_all_tools) :
                 register_all_tools[i].name \in Range(exec_ret.result.available_tools)
           /\ ~exec_ret.invoked

C6_Witness ==
    /\ calls > 0
    /\ exec_call.tool_name = "no_such_tool"
    /\ exec_ret.returned
    /\ Len(exec_ret.result.available_tools) = Len(register_all_tools)

\* The required parameters of the called tool that the call's params omit.
MissingRequired(call) ==
    {ps \in Range(get_tool(call.tool_name)[1].params) :
        ps.required /\ ps.name \notin DOMAIN call.params.items}

\* C7: with validate=true, a call on a registered tool whose params omit
\* required parameters returns success=false, its details name every
\* omitted required parameter, and the tool body does not run.
C7_MissingRequiredAreAllListed ==
    (/\ calls > 0
     /\ exec_call.validate
     /\ exec_call.tool_name \in ToolNames
     /\ exec_call.params.kind = "dict"
     /\ MissingRequired(exec_call) # {})
        => /\ exec_ret.returned
           /\ ~exec_ret.result.success
           /\ Range(exec_ret.result.details) = {ps.name : ps \in MissingRequired(exec_call)}
           /\ ~exec_ret.invoked

C7_Witness ==
    /\ calls > 0
    /\ exec_call.validate
    /\ exec_call.tool_name = "filter"
    /\ exec_call.params = DictParams([k \in {"vega_spec"} |-> "S0"])
    /\ exec_ret.result.details = <<"dimension", "range">>

\* C8: a call that supplies all required parameters and only declared ones
\* runs the tool body; whenever the body runs, every omitted parameter with
\* a declared default arrives with that default and every supplied
\* parameter arrives with the supplied value.
C8_DefaultsFilledSuppliedKept ==
    (calls > 0 /\ exec_call.tool_name \in ToolNames /\ exec_call.params.kind = "dict")
        => LET specs == Range(get_tool(exec_call.tool_name)[1].params)
               given == exec_call.params.items
           IN  /\ (/\ DOMAIN given \subseteq {ps.name : ps \in specs}
                   /\ MissingRequired(exec_call) = {})
                      => exec_ret.invoked
               /\ exec_ret.invoked
                      => /\ \A ps \in specs :
                               (ps.has_default /\ ps.name \notin DOMAIN given)
                                  => /\ ps.name \in DOMAIN exec_ret.args
                                     /\ exec_ret.args[ps.name] = ps.default
                         /\ \A k \in DOMAIN given :
                               /\ k \in DOMAIN exec_ret.args
                               /\ exec_ret.args[k] = given[k]

\* sort_bars dispatched without 'order': the body gets order="descending"
\* and the call returns success with an updated spec
C8_Witness ==
    /\ calls > 0
    /\ exec_call.tool_name = "sort_bars"
    /\ exec_call.params = DictParams([k \in {"vega_spec"} |-> "S0"])
    /\ exec_ret.invoked
    /\ exec_ret.args["order"] = "descending"
    /\ exec_ret.args["vega_spec"] = "S0"
    /\ exec_ret.result.success
    /\ exec_ret.result.vega_spec # Absent

\* C9 as claimed: every execute call appends exactly one ExecutionRecord.
C9_EveryCallAppendsOneRecord ==
    (calls > 0) => Len(exec_ret.logged) = 1

\* The call gets as far as invoking the tool function: the tool is
\* registered and validation, when asked for, found nothing missing.
ReachesInvocation(call) ==
    /\ call.tool_name \in ToolNames
    /\ call.params.kind = "dict"
    /\ call.validate => MissingRequired(call) = {}

Min(a, b) == IF a < b THEN a ELSE b

\* C9 amended: an execute call that gets as far as invoking the tool
\* function appends exactly one ExecutionRecord, whether the body returns
\* success, returns a failure or raises; a call that ends with tool-not-found
\* or with a validation failure appends none and leaves the log unchanged.
C9_OneRecordPerInvocation ==
    [][ (calls' = calls + 1)
          => IF ReachesInvocation(exec_call')
             THEN /\ clock' = clock + 1
                  /\ Len(execution_history') = Min(Len(execution_history) + 1, HistoryCap)
                  /\ execution_history'[Len(execution_history')].timestamp = clock'
                  /\ execution_history'[Len(execution_history')].tool_name
                        = exec_call'.tool_name
                  /\ \A i \in 1..(Len(execution_history') - 1) :
                        execution_history'[i]
                           = execution_history[Len(execution_history) - Len(execution_history') + 1 + i]
             ELSE /\ clock' = clock
                  /\ execution_history' = execution_history ]_vars

\* a call whose tool body raised, and which was recorded
C9_Witness ==
    /\ calls > 0
    /\ exec_ret.invoked
    /\ exec_ret.result.error = "exception"
    /\ Len(exec_ret.logged) = 1
    /\ execution_history[Len(execution_history)] = exec_ret.logged[1]

\* C10: the log holds at most 100 records, and they are the most recently
\* appended ones in append order (a record's timestamp is its append index):
\* appending to a full log evicts the oldest record.
C10_LogIsBoundedRing ==
    /\ Len(execution_history) <= 100
    /\ Len(execution_history) = Min(clock, 100)
    /\ \A i \in 1..Len(execution_history) :
          execution_history[i].timestamp = clock - Len(execution_history) + i

\* a record was appended to a full log and the oldest record is gone
C10_Witness ==
    /\ clock = HistoryCap + 1
    /\ Len(execution_history) = HistoryCap
    /\ execution_history[1].timestamp = 2
    /\ execution_history[HistoryCap] = exec_ret.logged[1]

\* The round appended exactly the assistant turn and one user turn of the
\* given kind, carrying the given text and the image the round started with.
OneUserTurnFollows(kind, text) ==
    /\ Len(messages) = round_log.pre_messages + 2
    /\ messages[Len(messages) - 1].role = "assistant"
    /\ messages[Len(messages)].role = "user"
    /\ messages[Len(messages)].kind = kind
    /\ messages[Len(messages)].text = text
    /\ messages[Len(messages)].image = round_log.pre_image

SpecAndImageHeld ==
    /\ current_spec = round_log.pre_spec
    /\ current_image = round_log.pre_image

C12_AnalysisOnlyKeepsView ==
    (round_log.dispatched /\ round_log.tool_result.success
                          /\ round_log.tool_result.vega_spec = Absent)
        => /\ OneUserTurnFollows("analysis", round_log.tool_result.message)
           /\ Len(iterations) = round_log.pre_iterations + 1
           /\ iterations[Len(iterations)].success
           /\ SpecAndImageHeld
           /\ ~round_log.rendered

C12_Witness ==
    /\ round_log.dispatched
    /\ round_log.tool_result.success
    /\ round_log.tool_result.vega_spec = Absent
    /\ messages[Len(messages)].kind = "analysis"
    /\ current_spec = "S0"
    /\ current_image = ImageOf("S0")

\* C13: when the Endpoint call of a round fails, exactly one record marked
\* failed and carrying the Endpoint's error is appended, no assistant turn
\* is appended, no tool is dispatched, the loop ends without another
\* Endpoint call, and the call returns success=true with the spec and image
\* the round started with.
C13_EndpointFailureEndsLoop ==
    (round_log.n > 0 /\ ~round_log.vlm_ok)
        => /\ Len(iterations) = round_log.pre_iterations + 1
           /\ ~iterations[Len(iterations)].success
           /\ iterations[Len(iterations)].error = VlmError.error
           /\ Len(messages) = round_log.pre_messages
           /\ ~round_log.dispatched
           /\ round_log.exit = "break"
           /\ frame.vlm_calls = round_log.n
           /\ SpecAndImageHeld
           /\ \/ pc = "exit"
              \/ /\ pc = "idle"
                 /\ go_ret.returned
                 /\ go_ret.success
                 /\ go_ret.final_spec = round_log.pre_spec
                 /\ go_ret.final_image = round_log.pre_image

\* the Endpoint fails in round 2, after a round that changed the spec, and
\* the call has returned
C13_Witness ==
    /\ round_log.n = 2
    /\ ~round_log.vlm_ok
    /\ go_ret.returned
    /\ go_ret.success
    /\ go_ret.final_spec = "S1"
    /\ Len(go_ret.iterations) = 2

\* C14: GoalOrientedMode.execute (and with it process_query, which calls it
\* outside any try block) never raises: whatever decision a successful
\* Endpoint response carries, the call returns a result.
C14_ExecuteNeverRaises ==
    ~go_ret.raised

\* The error a failed record carries: its own 'error' entry, or the error of
\* the tool result stored in it.
RecordedError(record) ==
    IF record.error # Absent
    THEN record.error
    ELSE IF record.has_tool_execution
    THEN record.tool_execution.tool_result.error
    ELSE Absent

\* C15: every record of the loop marked success=false carries the error
\* message of the failure that caused it (Endpoint, tool or render failure).
C15_FailedRecordsCarryTheirError ==
    \A i \in 1..Len(iterations) :
        ~iterations[i].success => RecordedError(iterations[i]) # Absent

BothCallsOver == \A t \in Threads : threads[t].pc = "done"

\* C16: when two calls on the same session have run concurrently, the
\* session is in the state that running the two calls one after the other,
\* in one order or the other, leaves it in.
C16_ConcurrentCallsAreSerializable ==
    (threads # <<>> /\ BothCallsOver)
        => \/ SessionNow = RunAlone(RunAlone(session0, threads[1].call), threads[2].call)
           \/ SessionNow = RunAlone(RunAlone(session0, threads[2].call), threads[1].call)

\* C17: once the concurrently recording dispatches are over, the log holds
\* at most 100 records and every record they appended is in it (with three
\* appends, none of them is old enough to be evicted).
C17_NoAppendedRecordIsLost ==
    (recorders # <<>> /\ \A t \in Recorders : recorders[t].pc = "done")
        => /\ Len(execution_history) <= HistoryCap
           /\ \A t \in Recorders : recorders[t].record \in Range(execution_history)

\* The names of the tools in each of the three outputs
OpenAINames(tools) == {tools[i].function.name : i \in DOMAIN tools}

AnthropicNames(tools) == {tools[i].name : i \in DOMAIN tools}

PromptNames(prompt_parts) == {n \in ToolNames : ToolHeading(n) \in Range(prompt_parts)}

\* The catalog entries a filter selects: those of the kind and the common
\* ones, the whole catalog without a filter or for a kind with no list
SelectedEntries(chart_type) ==
    IF chart_type \in DOMAIN _chart_tools
    THEN Range(_chart_tools[chart_type])
    ELSE ToolNames

\* The schema says of a descriptor's parameters what the descriptor says
SchemaMatchesDescriptor(schema, tool_name) ==
    LET tool_info == get_tool(tool_name)[1]
    IN  /\ DOMAIN schema.properties = ParamNames(tool_info)
        /\ \A n \in ParamNames(tool_info) :
              /\ schema.properties[n].type = type_mapping(ParamSpec(tool_info, n).type)
              /\ schema.properties[n].default =
                    (IF ParamSpec(tool_info, n).has_default
                     THEN ParamSpec(tool_info, n).default
                     ELSE Absent)
        /\ schema.has_required = (RequiredNames(tool_info) # {})
        /\ Range(schema.required) = RequiredNames(tool_info)

\* C18: under every filter (none included) each of the three outputs names
\* exactly the catalog entries the filter selects, so the three name sets
\* are the same; and the parameters schema of dialect A is the input schema
\* of dialect B for every tool, with the descriptor's properties, mapped
\* types and defaults, and a required list of exactly the required ones.
C18_ThreeOutputsAgree ==
    /\ openai_tools.called
          => /\ OpenAINames(openai_tools.output) = SelectedEntries(openai_tools.chart_type)
             /\ \A i \in DOMAIN openai_tools.output :
                   SchemaMatchesDescriptor(openai_tools.output[i].function.parameters,
                                           openai_tools.output[i].function.name)
    /\ anthropic_tools.called
          => /\ AnthropicNames(anthropic_tools.output)
                   = SelectedEntries(anthropic_tools.chart_type)
             /\ \A i \in DOMAIN anthropic_tools.output :
                   SchemaMatchesDescriptor(anthropic_tools.output[i].input_schema,
                                           anthropic_tools.output[i].name)
    /\ prompt_string.called
          => PromptNames(prompt_string.output) = SelectedEntries(prompt_string.chart_type)
    /\ (openai_tools.called /\ anthropic_tools.called /\ prompt_string.called
            /\ openai_tools.chart_type = anthropic_tools.chart_type
            /\ openai_tools.chart_type = prompt_string.chart_type)
          => /\ OpenAINames(openai_tools.output) = AnthropicNames(anthropic_tools.output)
             /\ OpenAINames(openai_tools.output) = PromptNames(prompt_string.output)
             /\ \A i \in DOMAIN openai_tools.output :
                 \A j \in DOMAIN anthropic_tools.output :
                     openai_tools.output[i].function.name = anthropic_tools.output[j].name
                       => openai_tools.output[i].function.parameters
                            = anthropic_tools.output[j].input_schema

\* The three conversions were called for scatter plots and list the
\* clustering tool, which has defaults and one required parameter.
C18_Witness ==
    /\ openai_tools.called /\ anthropic_tools.called /\ prompt_string.called
    /\ openai_tools.chart_type = "scatter_plot"
    /\ anthropic_tools.chart_type = "scatter_plot"
    /\ prompt_string.chart_type = "scatter_plot"
    /\ "identify_clusters" \in OpenAINames(openai_tools.output)
    /\ "identify_clusters" \in PromptNames(prompt_string.output)
    /\ \E j \in DOMAIN anthropic_tools.output :
          /\ anthropic_tools.output[j].name = "identify_clusters"
          /\ anthropic_tools.output[j].input_schema.required = <<"vega_spec">>
          /\ anthropic_tools.output[j].input_schema.properties["n_clusters"].default = "3"

\* The tools registered for one chart kind, and the common ones
ToolsOfKind(chart_type) == Range(_chart_tools[chart_type]) \ Range(Keys(common_tools))

CommonToolNames == Range(Keys(common_tools))

\* What C19 asks of the names of one output made under one filter
FilteredByKind(chart_type, names) ==
    /\ \A kind \in DOMAIN _chart_tools :
       \A n \in ToolsOfKind(kind) :
          /\ chart_type = kind => n \in names
          /\ chart_type \in (DOMAIN _chart_tools) \ {kind} => n \notin names
    /\ CommonToolNames \subseteq names

HasToken(keywords, text) == \E k \in Range(keywords) : Contains(k, text)

GreetingRule(text) ==
    Len(text) < 10 /\ (HasToken(greetings, text) \/ HasToken(polite_words, text))

SystemQueryRule(text) == HasToken(system_queries, text)

ExplicitActionRule(text) == HasToken(explicit_actions, text)

\* C20: the lexical rules apply in a fixed order and the first match wins:
\* a normalized query of fewer than 10 characters with a greeting or
\* pleasantry token is Chitchat; else a query with a system-identity or
\* help phrase is Chitchat whatever its length; else a query with an
\* explicit-action token is ExplicitGoal; and when one of the three rules
\* matches, the Endpoint is not called.
C20_LexicalRulesInOrder ==
    intent_call.called =>
        LET query == strip(lower(intent_call.user_query))
            recognized == intent_call.recognized
        IN  /\ GreetingRule(query) => recognized.intent = "chitchat"
            /\ (~GreetingRule(query) /\ SystemQueryRule(query))
                  => recognized.intent = "chitchat"
            /\ (~GreetingRule(query) /\ ~SystemQueryRule(query)
                    /\ ExplicitActionRule(query))
                  => recognized.intent = "explicit_analysis"
            /\ (GreetingRule(query) \/ SystemQueryRule(query)
                    \/ ExplicitActionRule(query))
                  => recognized.vlm_calls = 0
            /\ intent_call.user_query = HelloQuery
                  => recognized.intent = "chitchat" /\ recognized.vlm_calls = 0
            /\ intent_call.user_query = TopTenQuery
                  => recognized.intent = "explicit_analysis" /\ recognized.vlm_calls = 0

\* A short query with both a greeting token and an explicit-action token
\* was classified: the first rule won, without a call of the Endpoint.
C20_Witness ==
    /\ intent_call.called
    /\ GreetingRule(strip(lower(intent_call.user_query)))
    /\ ExplicitActionRule(strip(lower(intent_call.user_query)))
    /\ intent_call.recognized.intent = "chitchat"
    /\ intent_call.recognized.vlm_calls = 0

NoLexicalRule(text) ==
    ~GreetingRule(text) /\ ~SystemQueryRule(text) /\ ~ExplicitActionRule(text)

\* C21: when no lexical rule matches, intent recognition makes exactly one
\* call of the Endpoint; a failed call or a label that is none of the known
\* intents gives Unknown, any other label gives the intent it names; and the
\* classification changes no session state.
C21_FallbackOnEndpoint ==
    [][intent_call'.called =>
          /\ NoLexicalRule(strip(lower(intent_call'.user_query))) =>
                /\ intent_call'.recognized.vlm_calls = 1
                /\ intent_call'.recognized.intent =
                      IF intent_call'.response.success
                            /\ intent_call'.response.intent_type \in IntentTypes
                      THEN intent_call'.response.intent_type
                      ELSE "unknown"
          /\ session' = session
          /\ sessions' = sessions
          /\ session0' = session0
          /\ store' = store]_vars

\* A query without any keyword was classified by a failed call of the
\* Endpoint: the intent is Unknown after one call.
C21_Witness ==
    /\ intent_call.called
    /\ NoLexicalRule(strip(lower(intent_call.user_query)))
    /\ ~intent_call.response.success
    /\ intent_call.recognized.intent = "unknown"
    /\ intent_call.recognized.vlm_calls = 1

AssistantTurns(msgs) == SelectSeq(msgs, LAMBDA m : m.role = "assistant")

\* a pass through the loop body has just been made
RoundStep == round_log' # round_log /\ round_log'.kind # "none"

\* C27: the goal-oriented transcript gets exactly one assistant turn per
\* successful call of the Endpoint, holding the raw text of that reply,
\* placed right after the turns that were there; a failed call appends no
\* turn.
C27_OneAssistantTurnPerReply ==
    [][/\ RoundStep =>
            IF round_log'.vlm_ok
            THEN /\ Len(messages') > Len(messages)
                 /\ SubSeq(messages', 1, Len(messages)) = messages
                 /\ messages'[Len(messages) + 1] = AssistantMsg(round_log'.raw)
                 /\ AssistantTurns(messages') =
                        Append(AssistantTurns(messages), AssistantMsg(round_log'.raw))
            ELSE messages' = messages
       /\ (~RoundStep /\ pc # "idle") => messages' = messages]_vars

\* Two rounds of one call both got a reply: the transcript holds the two
\* replies in order, each followed by the turn that reports the tool.
C27_Witness ==
    /\ pc = "loop"
    /\ round_log.n = 2 /\ round_log.vlm_ok /\ round_log.dispatched
    /\ frame.base_len = 0
    /\ Len(AssistantTurns(messages)) = 2
    /\ Len(messages) = 5

SingleExecute(tool_call) ==
    execute(tool_call.tool, EntryParams(tool_call), TRUE, tool_call.body, <<>>, 0)

\* C23: execute_batch returns one result per entry, in the order of the
\* entries; the result of an entry with a tool name is what a single execute
\* call with its tool and params returns; an entry without a tool name gets
\* a failure result and is not dispatched; a failing entry does not stop
\* the entries after it.
C23_BatchIsPerEntryExecute ==
    batch.called =>
        /\ batch.returned
        /\ Len(batch.results) = Len(batch.tool_calls)
        /\ \A i \in 1..Len(batch.tool_calls) :
              IF NoToolName(batch.tool_calls[i])
              THEN /\ batch.results[i] = NotSpecified
                   /\ i \notin Range(batch.dispatched)
              ELSE /\ batch.results[i] = SingleExecute(batch.tool_calls[i]).result
                   /\ i \in Range(batch.dispatched)

\* the positions of the text where a balanced {...} object starts
ObjectStarts(text) ==
    {i \in 1..Len(text) : text[i] = "{" /\ ValueEnd(text, i) # 0}

FirstObjectStart(text) ==
    CHOOSE i \in ObjectStarts(text) : \A j \in ObjectStarts(text) : i <= j

\* the first balanced {...} object of the text
FirstBalancedObject(text) ==
    SubSeq(text, FirstObjectStart(text), ValueEnd(text, FirstObjectStart(text)) - 1)

\* C26: for every text the extracted value is the first balanced {...}
\* object found in the text when there is one, and otherwise an empty
\* object, whether or not the text holds a balanced [...] array; the value
\* is always an object, never an array.
C26_FirstBalancedObject ==
    extraction.called =>
        /\ extraction.value[1] = "{"
        /\ extraction.value =
              IF ObjectStarts(extraction.text) # {}
              THEN FirstBalancedObject(extraction.text)
              ELSE EmptyObject

\* a call of the SessionManager has just been made
StoreStep(op) == store_call'.n = store_call.n + 1 /\ store_call'.op = op

\* process_query has just handed a query on an existing session to the
\* engine of this intent
EngineStep(intent) ==
    /\ StoreStep("process_query")
    /\ store_call'.session_id \in DOMAIN store
    /\ store_call'.intent.intent = intent

\* the chitchat transcript a session holds
ChitchatTranscript(d) ==
    IF d.has_chitchat_messages THEN d.chitchat_messages ELSE <<>>

\* C22: a call of the chitchat engine makes exactly one call of the Endpoint
\* and no tool dispatch and no render; when the Endpoint succeeds, the
\* session's chitchat transcript grows by exactly the user turn followed by
\* the assistant turn that holds the reply, and the result is success=true
\* with that reply; when the Endpoint fails, the result is success=false
\* with the Endpoint's error.
C22_ChitchatOneExchange ==
    [][EngineStep("chitchat") =>
          LET id == store_call'.session_id
              response == store_call'.script[1].response
              result == store_call'.result
          IN  /\ store_call'.vlm_calls = store_call'.intent.vlm_calls + 1
              /\ store_call'.tool_calls = 0
              /\ store_call'.render_calls = 0
              /\ execution_history' = execution_history
              /\ ~store_call'.raised
              /\ result.mode = "chitchat"
              /\ IF response.success
                 THEN /\ store'[id].has_chitchat_messages
                      /\ store'[id].chitchat_messages =
                            ChitchatTranscript(store[id]) \o
                            << UserMsg("chitchat", Absent, store_call'.user_query,
                                       store[id].current_image),
                               AssistantMsg(response.content) >>
                      /\ result.success
                      /\ result.response = response.content
                 ELSE /\ ~result.success
                      /\ result.error = response.error]_vars

\* The second greeting on a session was answered: the transcript holds the
\* two exchanges.
C22_Witness ==
    /\ store_call.op = "process_query"
    /\ store_call.session_id \in DOMAIN store
    /\ store_call.intent.intent = "chitchat"
    /\ store_call.result.success
    /\ Len(store[store_call.session_id].chitchat_messages) = 4
    /\ store[store_call.session_id].chitchat_messages[4].role = "assistant"

\* the latest call was process_query on an existing session and it returned
QueryReturned ==
    /\ store_call.op = "process_query"
    /\ store_call.session_id \in DOMAIN store
    /\ ~store_call.raised

\* C24: after process_query returns for a query handled by a loop engine
\* (goal-oriented or autonomous exploration), the session's current spec and
\* current image are the final spec and the final image the engine produced
\* for that query.
C24_SessionHoldsFinalSpecAndImage ==
    (QueryReturned /\ store_call.result.mode \in {"goal_oriented",
                                                  "autonomous_exploration"})
        => /\ store[store_call.session_id].vega_spec = store_call.result.final_spec
           /\ store[store_call.session_id].current_image = store_call.result.final_image

\* C25: the conversation history is append-only: every process_query call on
\* an existing session appends exactly one entry {query, intent, result} for
\* that query, whichever engine handled it and whether or not its result is
\* a success; no call changes or reorders the entries that were there, in
\* this session or in another.
C25_HistoryAppendOnly ==
    [][store_call'.n = store_call.n + 1 =>
          \A id \in DOMAIN store :
              /\ id \in DOMAIN store'
              /\ store'[id].conversation_history =
                    IF store_call'.op = "process_query" /\ store_call'.session_id = id
                    THEN Append(store[id].conversation_history,
                                HistoryEntry(store_call'.user_query,
                                             store_call'.intent.intent,
                                             store_call'.result))
                    ELSE store[id].conversation_history]_vars

\* C29: process_query and reset_view called with a session identifier that
\* is not in the store return success=false with the error 'Session not
\* found', call neither the Endpoint nor a tool nor the renderer, and leave
\* the store as it was: no session is created and none is modified.
C29_UnknownSessionIsRefused ==
    [][((StoreStep("process_query") \/ StoreStep("reset_view"))
            /\ store_call'.session_id \notin DOMAIN store)
          => /\ ~store_call'.raised
             /\ ~store_call'.result.success
             /\ store_call'.result.error = "Session not found"
             /\ store_call'.vlm_calls = 0
             /\ store_call'.tool_calls = 0
             /\ store_call'.render_calls = 0
             /\ execution_history' = execution_history
             /\ store' = store]_vars

\* process_query was called with an identifier of no session while the
\* store held a session with a history.
C29_Witness ==
    /\ store_call.op = "process_query"
    /\ store_call.session_id \notin DOMAIN store
    /\ store_call.result = NotFound
    /\ Len(store) = 1
    /\ Len(store[1].conversation_history) = 1

\* C30: create_session creates no session and returns no identifier when the
\* initial render fails: the store is unchanged; when the render succeeds
\* the store gains one session, under the returned identifier, that holds
\* the given spec as current and as original spec, the rendered image and
\* an empty conversation history.
C30_CreateSessionNeedsRender ==
    [][StoreStep("create_session") =>
          IF ~store_call'.script[1].render_ok
          THEN /\ store' = store
               /\ store_call'.created = NoSessionId
          ELSE /\ store_call'.created \notin DOMAIN store
               /\ DOMAIN store' = DOMAIN store \cup {store_call'.created}
               /\ \A id \in DOMAIN store : store'[id] = store[id]
               /\ LET d == store'[store_call'.created]
                  IN  /\ d.vega_spec = store_call'.user_query
                      /\ d.original_spec = store_call'.user_query
                      /\ d.current_image = ImageOf(store_call'.user_query)
                      /\ d.conversation_history = <<>>]_vars

\* A second create_session failed at the render: the store still holds the
\* one session of the first call, and no identifier came back.
C30_Witness ==
    /\ store_call.op = "create_session"
    /\ store_call.n = 2
    /\ ~store_call.script[1].render_ok
    /\ store_call.created = NoSessionId
    /\ Len(store) = 1

\* the latest call was process_query or reset_view on an existing session
\* and it returned
SessionCallReturned ==
    /\ store_call.op \in {"process_query", "reset_view"}
    /\ store_call.session_id \in DOMAIN store
    /\ ~store_call.raised

\* C31: after every completed process_query or reset_view on a session the
\* session's current image is the image that a render of the session's
\* current spec produces, and the final_spec/final_image pair returned by a
\* goal-oriented call is such a pair too: the image never shows another
\* spec than the current one.
C31_ImageShowsCurrentSpec ==
    SessionCallReturned =>
        /\ store[store_call.session_id].current_image =
              ImageOf(store[store_call.session_id].vega_spec)
        /\ store_call.result.mode = "goal_oriented" =>
              store_call.result.final_image = ImageOf(store_call.result.final_spec)

\* the call has set up its transcript and is about to make the Endpoint
\* call of its first round
FirstRoundAhead == pc = "loop" /\ frame.vlm_calls = 0

\* C32: for every goal-oriented call on a session, the second and later
\* ones included, the transcript sent to the Endpoint in the call's first
\* round holds a user turn that carries the call's query text.
C32_FirstRoundCarriesTheQuery ==
    FirstRoundAhead =>
        \E i \in 1..Len(messages) :
            /\ messages[i].role = "user"
            /\ messages[i].text = frame.user_query

\* C33: the success flag of every ExecutionRecord equals the success flag of
\* the result that the dispatch call which wrote the record returned to its
\* caller.
C33_RecordFlagIsResultFlag ==
    (exec_ret.returned /\ exec_ret.logged # <<>>)
        => \A i \in 1..Len(exec_ret.logged) :
              exec_ret.logged[i].success = exec_ret.result.success

\* C34: a chitchat exchange whose Endpoint call fails leaves the session's
\* chitchat transcript as it was, so that after every chitchat call, failed
\* or not, the transcript alternates user/assistant turns and ends with an
\* assistant turn.
C34_FailedExchangeLeavesTranscript ==
    [][EngineStep("chitchat") =>
          LET id == store_call'.session_id
              after == ChitchatTranscript(store'[id])
          IN  /\ ~store_call'.script[1].response.success
                    => after = ChitchatTranscript(store[id])
              /\ Alternates(after)
              /\ after # <<>> => after[Len(after)].role = "assistant"]_vars

\* a round of the goal-oriented loop has just run
LoopRoundStep == pc = "loop" /\ frame'.vlm_calls = frame.vlm_calls + 1

\* C35: the chart spec that a tool body receives from the goal-oriented
\* engine is the engine's current spec at the start of the round: a
\* vega_spec value that the model put into the params of its tool call is
\* overwritten before the dispatch and never reaches the tool body.
C35_ToolBodyGetsCurrentSpec ==
    [][(LoopRoundStep /\ round_log'.dispatched /\ exec_ret'.invoked)
          => /\ "vega_spec" \in DOMAIN exec_ret'.args
             /\ exec_ret'.args["vega_spec"] = current_spec]_vars

\* The model's tool call named a spec of its own while the engine's current
\* spec was the one an earlier round had produced; the tool body received
\* the engine's.
C35_Witness ==
    /\ round_log.dispatched
    /\ round_log.raw = "call sort_bars"
    /\ round_log.pre_spec = "S1"
    /\ exec_ret.invoked
    /\ exec_ret.args["vega_spec"] = "S1"

\* C36: no process_query and no reset_view call changes the original spec
\* of a session, which create_session set to the spec it was given, and
\* right after reset_view the session's current spec is that original spec.
C36_OriginalSpecIsKept ==
    [][store_call'.n = store_call.n + 1 =>
          /\ \A id \in DOMAIN store :
                /\ id \in DOMAIN store'
                /\ store'[id].original_spec = store[id].original_spec
          /\ (store_call'.op = "create_session" /\ store_call'.created # NoSessionId)
                => store'[store_call'.created].original_spec = store_call'.user_query
          /\ (store_call'.op = "reset_view" /\ store_call'.session_id \in DOMAIN store)
                => store'[store_call'.session_id].vega_spec =
                      store[store_call'.session_id].original_spec]_vars

\* A goal-oriented query had replaced the session's spec, and reset_view
\* has put the original spec back.
C36_Witness ==
    /\ store_call.op = "reset_view"
    /\ store_call.session_id \in DOMAIN store
    /\ LET d == store[store_call.session_id]
       IN  /\ Len(d.conversation_history) = 1
           /\ d.conversation_history[1].result.success
           /\ d.conversation_history[1].result.final_spec = "S1"
           /\ d.vega_spec = "S0"
           /\ d.original_spec = "S0"

\* C37: a process_query or reset_view call on one session leaves every
\* field of every other session as it was.
C37_SessionIsolation ==
    [][(StoreStep("process_query") \/ StoreStep("reset_view")) =>
          \A id \in DOMAIN store \ {store_call'.session_id} :
              /\ id \in DOMAIN store'
              /\ store'[id] = store[id]]_vars

\* Two sessions exist; a goal-oriented query changed the spec of the second
\* one while the first one is as create_session left it.
C37_Witness ==
    /\ store_call.op = "process_query"
    /\ store_call.session_id = 2
    /\ Len(store) = 2
    /\ store[2].vega_spec = "S1"
    /\ Len(store[2].goal_oriented_iterations) > 0
    /\ store[1].vega_spec = "S0"
    /\ store[1].conversation_history = <<>>
    /\ ~store[1].has_goal_keys

\* the engine that the latest process_query ran, read off its outcome: the
\* goal-oriented engine is the one that can raise
EngineRan(call) ==
    IF call.raised THEN "goal_oriented" ELSE call.result.mode

ParsedOf(raw) ==
    (CHOOSE r \in Responses : r.success /\ r.content = raw).parsed_json

\* C39: the decision stored in the IterationRecord of a round is exactly the
\* decision parsed from the Endpoint's reply of that round, so it holds no
\* chart spec that the model did not send, and the records appended in
\* earlier rounds are not modified.
C39_StoredDecisionIsParsedDecision ==
    [][(LoopRoundStep /\ round_log'.vlm_ok /\ Len(iterations') = Len(iterations) + 1)
          => /\ iterations'[Len(iterations')].decision = ParsedOf(round_log'.raw)
             /\ SubSeq(iterations', 1, Len(iterations)) = iterations]_vars
====
